---- MODULE Spec2Model ----
(***************************************************************************)
(* The chain subscriber of renterd (src/chain/subscriber.go): the sync     *)
(* driver, the processUpdates transaction, the apply/revert walkers and    *)
(* the contract-state deriver (updateContract), together with the          *)
(* transactional store and the chain manager they talk to; and the webhook *)
(* manager (src/webhooks/webhooks.go) with its per-URL event queues.       *)
(***************************************************************************)
EXTENDS Integers, Sequences, FiniteSets, TLC

VARIABLES
    knownContracts, \* Subscriber.knownContracts (guarded by Subscriber.mu)
    now,            \* wall clock read by time.Since
    cmTip,          \* what ChainManager.Tip() returns
    store,          \* the persisted state of the ChainStore
    pc,             \* position of the goroutine running sync
    cursor,         \* the variable index of Subscriber.sync
    crus,           \* the revert updates of the fetched batch
    caus,           \* the apply updates of the fetched batch
    attempt,        \* the variable i of the retry loop of sync
    pos,            \* position of the walkers inside the batch
    index,          \* the named result index of processUpdates
    tx,             \* the state the open ChainUpdateTx would publish
    txLog,          \* the calls issued on the open ChainUpdateTx, in order
    txBegin,        \* history: the persisted state when the transaction began
    lastCall,       \* history: the last call of updateContract
    lastWalk,       \* history: the last pass of a walker over one update
    begun,          \* history: the transactions begun for the fetched batch
    commits,        \* history: the successful Commits for the fetched batch
    retryTxIntervals, \* len(Subscriber.retryTxIntervals)
    runpc,          \* position of the caller of Run
    worker,         \* position of the goroutine started by Run
    syncSig,        \* number of values buffered in Subscriber.syncSig
    closedChan,     \* Subscriber.closedChan is closed
    onReorg,        \* the callback of Run is registered with the chain manager
    awaited,        \* history: a post to syncSig and what followed it
    closedAt,       \* history: where the worker was when closedChan was closed
    lastPass,       \* history: how the last pass of the worker ended
    compose,        \* history: the runs of processUpdates that are compared
    lastPost,       \* history: what became of the last post to syncSig
    webhooks,       \* Manager.webhooks
    queues,         \* Manager.queues: per URL the events and isDequeueing
    dequeuers,      \* per URL the goroutines running eventQueue.dequeue
    broadcast,      \* the call of BroadcastAction that holds Manager.mu
    ctxDone,        \* Manager.ctx is cancelled
    closepc,        \* position of the caller of Manager.Close
    emitted,        \* number of calls of BroadcastAction so far
    appended,       \* history: per URL the events appended to its queue
    handed          \* history: per URL the events handed to sendEvent

\* the configuration and the state of Run, Close and the worker
lifeVars == <<retryTxIntervals, runpc, worker, syncSig, closedChan, onReorg,
              awaited, closedAt, lastPass>>
\* the webhook manager
hookVars == <<webhooks, queues, dequeuers, broadcast, ctxDone, closepc, emitted,
              appended, handed>>
\* the history of the comparison of two ways to process the same updates, and
\* everything else no step of sync or processUpdates touches
compVars == <<compose, lastPost, hookVars>>
\* the history of the retry loop
batchHist == <<begun, commits>>

vars == <<knownContracts, now, cmTip, store, pc, cursor, crus, caus, attempt,
          pos, index, tx, txLog, txBegin, lastCall, lastWalk, begun, commits,
          retryTxIntervals, runpc, worker, syncSig, closedChan, onReorg,
          awaited, closedAt, lastPass, compose, lastPost, webhooks, queues,
          dequeuers, broadcast, ctxDone, closepc, emitted, appended, handed>>

(***************************************************************************)
(* Bounds of the model.                                                    *)
(***************************************************************************)
NumContracts == 2      \* file contract IDs 1..NumContracts
MaxNow == 2            \* the clock runs over 0..MaxNow
MaxHeight == 3         \* each fork of the chain has MaxHeight blocks
MaxBatchUpdates == 2   \* updates per batch, standing for updatesBatchSize
NumRetryIntervals == 1 \* len(s.retryTxIntervals)
NumURLs == 2           \* webhook URLs 1..NumURLs
MaxEvents == 2         \* calls of Manager.BroadcastAction

(***************************************************************************)
(* Program constants and configuration.                                    *)
(***************************************************************************)
MaxRevisionNumber == 2147483647  \* types.MaxRevisionNumber, scaled to TLC's integers
announcementMaxAge == 1          \* Subscriber.announcementMaxAge, non-zero
syncSigCap == 1                  \* the buffer of Subscriber.syncSig

FCIDs == 1..NumContracts
Times == 0..MaxNow

ContractStateUnknown == "unknown"
ContractStatePending == "pending"
ContractStateActive == "active"
ContractStateComplete == "complete"
ContractStateFailed == "failed"
ContractStates == {ContractStateUnknown, ContractStatePending, ContractStateActive,
                   ContractStateComplete, ContractStateFailed}

\* the struct revision: (revisionNumber, fileSize)
Rev(n, size) == [revisionNumber |-> n, fileSize |-> size]
Revisions == {Rev(n, size) : n \in {4, MaxRevisionNumber}, size \in {0, 1024}}

\* a *revision: NoRev is the nil pointer
NoRev == <<>>
Some(r) == <<r>>
OptRevisions == {NoRev} \cup {Some(r) : r \in Revisions}

\* types.ChainIndex; ZeroIndex is the zero value types.ChainIndex{}
Idx(h, id) == [height |-> h, id |-> id]
ZeroIndex == Idx(0, 0)

(***************************************************************************)
(* The calls of the interface ChainUpdateTx, as records.                   *)
(***************************************************************************)
CallContractState(fcid) == [op |-> "ContractState", fcid |-> fcid]
CallUpdateContract(fcid, h, n, size) ==
    [op |-> "UpdateContract", fcid |-> fcid, revisionHeight |-> h,
     revisionNumber |-> n, size |-> size]
CallUpdateContractState(fcid, state) ==
    [op |-> "UpdateContractState", fcid |-> fcid, state |-> state]
CallUpdateContractProofHeight(fcid, h) ==
    [op |-> "UpdateContractProofHeight", fcid |-> fcid, proofHeight |-> h]
CallUpdateHost(hk, addr, idx, ts) ==
    [op |-> "UpdateHost", hk |-> hk, netAddress |-> addr, bh |-> idx.height,
     blockID |-> idx.id, ts |-> ts]
CallUpdateChainIndex(idx) == [op |-> "UpdateChainIndex", index |-> idx]
CallUpdateFailedContracts(h) == [op |-> "UpdateFailedContracts", blockHeight |-> h]
CallWalletRevert(idx) == [op |-> "WalletRevert", index |-> idx]
CallWalletApply(idx) == [op |-> "WalletApply", index |-> idx]
CallCommit == [op |-> "Commit"]

ContractOps == {"ContractState", "UpdateContract", "UpdateContractState",
                "UpdateContractProofHeight"}

(***************************************************************************)
(* The store behind ChainUpdateTx: one row per contract, one per host, the *)
(* wallet and the tip.  A transaction works on a private copy that Commit  *)
(* publishes.                                                              *)
(***************************************************************************)
HostKeys == {1, 2}
NoHost == <<>>
WindowEnd == 2   \* the height at which the proof window of every contract ends

ContractRow(state) ==
    [state |-> state, revisionHeight |-> 0, revisionNumber |-> 0, size |-> 0,
     proofHeight |-> 0]

StoreWith(tip, state) ==
    [tip |-> tip,
     contracts |-> [f \in FCIDs |-> ContractRow(state)],
     hosts |-> [hk \in HostKeys |-> NoHost],
     wallet |-> tip]

\* UpdateFailedContracts: active contracts whose window has passed are failed
SweepFailed(rows, h) ==
    [f \in DOMAIN rows |->
        IF rows[f].state = ContractStateActive /\ WindowEnd <= h
        THEN [rows[f] EXCEPT !.state = ContractStateFailed]
        ELSE rows[f]]

\* what one successful call does to the transaction's copy
Effect(t, c) ==
    CASE c.op = "UpdateContract" ->
            [t EXCEPT !.contracts[c.fcid].revisionHeight = c.revisionHeight,
                      !.contracts[c.fcid].revisionNumber = c.revisionNumber,
                      !.contracts[c.fcid].size = c.size]
      [] c.op = "UpdateContractState" ->
            [t EXCEPT !.contracts[c.fcid].state = c.state]
      [] c.op = "UpdateContractProofHeight" ->
            [t EXCEPT !.contracts[c.fcid].proofHeight = c.proofHeight]
      [] c.op = "UpdateHost" ->
            [t EXCEPT !.hosts[c.hk] =
                <<[netAddress |-> c.netAddress, bh |-> c.bh, blockID |-> c.blockID,
                   ts |-> c.ts]>>]
      [] c.op = "UpdateChainIndex" -> [t EXCEPT !.tip = c.index]
      [] c.op = "UpdateFailedContracts" ->
            [t EXCEPT !.contracts = SweepFailed(t.contracts, c.blockHeight)]
      [] c.op \in {"WalletRevert", "WalletApply"} -> [t EXCEPT !.wallet = c.index]
      [] OTHER -> t

RECURSIVE Effects(_, _)
Effects(t, cs) == IF cs = <<>> THEN t ELSE Effects(Effect(t, Head(cs)), Tail(cs))

\* The calls of cs that are issued when the k-th one returns an error
\* (k = 0: none does), and the copy they leave behind.
Issued(cs, k) == IF k = 0 THEN cs ELSE SubSeq(cs, 1, k)
Done(cs, k) == IF k = 0 THEN cs ELSE SubSeq(cs, 1, k - 1)
FailPoints(cs) == 0..Len(cs)

(***************************************************************************)
(* Subscriber.isKnownContract and Subscriber.updateContract.               *)
(***************************************************************************)
\* mutant: the filter lets every contract through
isKnownContractAny(fcid) == fcid \in FCIDs

isKnownContract(fcid) == fcid \in knownContracts

\* mutant: the resolved branch of the revert path is taken for valid proofs only
updateContractRevertValidOnly(state, idx, fcid, prev, curr, resolved, valid) ==
    (IF curr = NoRev
     THEN <<CallUpdateContractState(fcid, ContractStatePending)>>
     ELSE <<CallUpdateContract(fcid, idx.height, prev[1].revisionNumber, prev[1].fileSize)>>
          \o (IF state = ContractStateComplete
               THEN <<CallUpdateContractState(fcid, ContractStateActive)>>
               ELSE <<>>))
    \o (IF resolved /\ valid
        THEN <<CallUpdateContractState(fcid, ContractStateActive)>>
        ELSE <<>>)

\* the revert path of updateContract, after the state was fetched
updateContractRevert(state, idx, fcid, prev, curr, resolved, valid) ==
    (IF curr = NoRev
     THEN <<CallUpdateContractState(fcid, ContractStatePending)>>
     ELSE <<CallUpdateContract(fcid, idx.height, prev[1].revisionNumber, prev[1].fileSize)>>
          \o (IF state = ContractStateComplete
               THEN <<CallUpdateContractState(fcid, ContractStateActive)>>
               ELSE <<>>))
    \o (IF resolved
        THEN <<CallUpdateContractState(fcid, ContractStateActive)>>
        ELSE <<>>)

\* mutant: the apply path confirms the contract whatever its prior state
updateContractApplyAlwaysActive(state, idx, fcid, curr, resolved, valid) ==
    <<CallUpdateContract(fcid, idx.height, curr[1].revisionNumber, curr[1].fileSize),
      CallUpdateContractState(fcid, ContractStateActive)>>
    \o (IF curr[1].revisionNumber = MaxRevisionNumber /\ curr[1].fileSize = 0
        THEN <<CallUpdateContractState(fcid, ContractStateComplete)>>
        ELSE <<>>)
    \o (IF resolved
        THEN <<CallUpdateContractProofHeight(fcid, idx.height),
               CallUpdateContractState(fcid,
                   IF valid THEN ContractStateComplete ELSE ContractStateFailed)>>
        ELSE <<>>)

\* mutant: the renewal marker is looked at after the storage proof
updateContractApplyMarkerLast(state, idx, fcid, curr, resolved, valid) ==
    <<CallUpdateContract(fcid, idx.height, curr[1].revisionNumber, curr[1].fileSize)>>
    \o (IF state = ContractStatePending \/ state = ContractStateUnknown
        THEN <<CallUpdateContractState(fcid, ContractStateActive)>>
        ELSE <<>>)
    \o (IF resolved
        THEN <<CallUpdateContractProofHeight(fcid, idx.height),
               CallUpdateContractState(fcid,
                   IF valid THEN ContractStateComplete ELSE ContractStateFailed)>>
        ELSE <<>>)
    \o (IF curr[1].revisionNumber = MaxRevisionNumber /\ curr[1].fileSize = 0
        THEN <<CallUpdateContractState(fcid, ContractStateComplete)>>
        ELSE <<>>)

\* the apply path of updateContract, after the state was fetched
updateContractApply(state, idx, fcid, curr, resolved, valid) ==
    <<CallUpdateContract(fcid, idx.height, curr[1].revisionNumber, curr[1].fileSize)>>
    \o (IF state = ContractStatePending \/ state = ContractStateUnknown
        THEN <<CallUpdateContractState(fcid, ContractStateActive)>>
        ELSE <<>>)
    \o (IF curr[1].revisionNumber = MaxRevisionNumber /\ curr[1].fileSize = 0
        THEN <<CallUpdateContractState(fcid, ContractStateComplete)>>
        ELSE <<>>)
    \o (IF resolved
        THEN <<CallUpdateContractProofHeight(fcid, idx.height),
               CallUpdateContractState(fcid,
                   IF valid THEN ContractStateComplete ELSE ContractStateFailed)>>
        ELSE <<>>)

\* updateContract returns the developer error without touching the transaction
updateContractDevErr(prev, curr) == prev = NoRev /\ curr = NoRev

\* the calls updateContract issues on a transaction whose copy is t when none fails
updateContract(t, idx, fcid, prev, curr, resolved, valid) ==
    IF updateContractDevErr(prev, curr) THEN <<>>
    ELSE IF ~isKnownContract(fcid) THEN <<>>
    ELSE <<CallContractState(fcid)>>
         \o (IF prev # NoRev
             THEN updateContractRevert(t.contracts[fcid].state, idx, fcid, prev, curr,
                                       resolved, valid)
             ELSE updateContractApply(t.contracts[fcid].state, idx, fcid, curr,
                                      resolved, valid))

\* the record kept of one call of updateContract that issued cs[1..k]
CallRecord(t, idx, fcid, prev, curr, resolved, valid, cs, k) ==
    [fcid |-> fcid, index |-> idx, prev |-> prev, curr |-> curr,
     resolved |-> resolved, valid |-> valid,
     known |-> isKnownContract(fcid),
     prior |-> t.contracts[fcid].state,
     calls |-> Issued(cs, k),
     err |-> (k # 0 \/ updateContractDevErr(prev, curr)),
     after |-> Effects(t, Done(cs, k)).contracts[fcid].state]
NoCall == <<>>
NoWalk == <<>>

(***************************************************************************)
(* What the chain manager hands over: apply and revert updates.  An update *)
(* carries State.Index, the timestamp of its block, the host announcements *)
(* of the block and its v1 and v2 file contract elements.                  *)
(***************************************************************************)
Resolutions == {"nil", "Finalization", "Renewal", "StorageProof", "Expiration"}
NetAddresses == {"", "host:9982"}

V1(id, fce, rev, resolved, valid) ==
    [v |-> 1, id |-> id, fce |-> fce, rev |-> rev, resolved |-> resolved, valid |-> valid]
V2(id, fce, rev, res) ==
    [v |-> 2, id |-> id, fce |-> fce, rev |-> rev, res |-> res]
Ann(hk, addr) == [hk |-> hk, netAddress |-> addr]
Update(idx, ts, anns, v1, v2) ==
    [index |-> idx, ts |-> ts, anns |-> anns, v1 |-> v1, v2 |-> v2]

\* the order in which a walker visits the elements of one update
Elements(u) == u.v1 \o u.v2

\* mutant: an expiration counts as valid whatever the file size
checkFileContractExpirationValid(fce, res) ==
    IF res = "nil" THEN <<FALSE, FALSE>> ELSE <<TRUE, TRUE>>

\* checkFileContract: <<resolved, valid>>
checkFileContract(fce, res) ==
    IF res = "nil" THEN <<FALSE, FALSE>>
    ELSE <<TRUE,
           CASE res = "Finalization" -> TRUE
             [] res = "Renewal" -> TRUE
             [] res = "StorageProof" -> TRUE
             [] res = "Expiration" -> fce.fileSize = 0
             [] OTHER -> FALSE>>

elementResolved(e) == IF e.v = 1 THEN e.resolved ELSE checkFileContract(e.fce, e.res)[1]
elementValid(e) == IF e.v = 1 THEN e.valid ELSE checkFileContract(e.fce, e.res)[2]

\* the arguments applyChainUpdates passes to updateContract for element e
applyArgs(e) ==
    [prev |-> NoRev,
     curr |-> IF e.rev # NoRev THEN e.rev ELSE Some(e.fce),
     resolved |-> elementResolved(e), valid |-> elementValid(e)]

\* mutant: prev is projected from the revision and curr from the element
revertArgsSwapped(e) ==
    [prev |-> e.rev, curr |-> Some(e.fce),
     resolved |-> elementResolved(e), valid |-> elementValid(e)]

\* the arguments revertChainUpdate passes to updateContract for element e
revertArgs(e) ==
    [prev |-> Some(e.fce), curr |-> e.rev,
     resolved |-> elementResolved(e), valid |-> elementValid(e)]

\* mutant: a block exactly announcementMaxAge old is skipped too
tooOldInclusive(ts, clock) == clock - ts >= announcementMaxAge

\* time.Since(b.Timestamp) > s.announcementMaxAge
tooOld(ts, clock) == clock - ts > announcementMaxAge

\* the UpdateHost calls applyChainUpdates makes for the announcements anns of
\* the block of cau, none failing
RECURSIVE hostCalls(_, _)
hostCalls(cau, anns) ==
    IF anns = <<>> THEN <<>>
    ELSE (IF Head(anns).netAddress = ""
          THEN <<>>
          ELSE <<CallUpdateHost(Head(anns).hk, Head(anns).netAddress, cau.index, cau.ts)>>)
         \o hostCalls(cau, Tail(anns))

(***************************************************************************)
(* The chain manager.  The chain is a tree: a genesis block and two forks  *)
(* of MaxHeight blocks each; the best chain runs from genesis to the tip.  *)
(* A block's contents are fixed by its index.                              *)
(***************************************************************************)
Forks == {1, 2}
Heights == 1..MaxHeight
BlockID(h, k) == 10 * k + h
Genesis == Idx(0, 10)
ForkOf(idx) == idx.id \div 10
ChainIndices == {Genesis} \cup {Idx(h, BlockID(h, k)) : h \in Heights, k \in Forks}

Parent(idx) ==
    IF idx = Genesis THEN ZeroIndex
    ELSE IF idx.height = 1 THEN Genesis
    ELSE Idx(idx.height - 1, idx.id - 1)

\* the block of the best chain with tip `tip` at height h
BestIndex(tip, h) == IF h = 0 THEN Genesis ELSE Idx(h, BlockID(h, ForkOf(tip)))
onBestChain(idx, tip) ==
    idx = ZeroIndex \/ (idx.height <= tip.height /\ BestIndex(tip, idx.height) = idx)

\* the contents of the block at idx
BlockTimestamp(idx) == IF idx.height = 0 THEN 0 ELSE (idx.height + ForkOf(idx)) % (MaxNow + 1)
BlockAnns(idx) ==
    IF idx = Genesis THEN <<>>
    ELSE IF ForkOf(idx) = 1
    THEN (IF idx.height % 2 = 1 THEN <<Ann(1, "host:9982")>>
          ELSE <<Ann(1, ""), Ann(2, "host:9982")>>)
    ELSE <<>>
BlockV1(idx) ==
    IF idx = Genesis THEN <<>>
    ELSE IF ForkOf(idx) = 1
    THEN (IF idx.height % 2 = 1
          THEN <<V1(1, Rev(4, 1024), NoRev, FALSE, FALSE)>>
          ELSE <<V1(1, Rev(4, 1024), Some(Rev(MaxRevisionNumber, 0)), FALSE, FALSE)>>)
    ELSE (IF idx.height % 2 = 1
          THEN <<V1(NumContracts, Rev(4, 1024), NoRev, TRUE, FALSE)>>
          ELSE <<>>)
BlockV2(idx) ==
    IF idx = Genesis THEN <<>>
    ELSE IF ForkOf(idx) = 1
    THEN (IF idx.height % 2 = 1 THEN <<>>
          ELSE <<V2(NumContracts, Rev(4, 1024), NoRev, "Expiration")>>)
    ELSE (IF idx.height % 2 = 1
          THEN <<V2(1, Rev(4, 0), Some(Rev(4, 1024)), "nil")>>
          ELSE <<V2(1, Rev(4, 1024), NoRev, "StorageProof")>>)

\* chain.ApplyUpdate of the block at idx: State.Index is the block's index
ApplyUpdateOf(idx) ==
    Update(idx, BlockTimestamp(idx), BlockAnns(idx), BlockV1(idx), BlockV2(idx))
\* chain.RevertUpdate of the block at idx: State.Index is the parent's index
RevertUpdateOf(idx) ==
    Update(Parent(idx), BlockTimestamp(idx), BlockAnns(idx), BlockV1(idx), BlockV2(idx))

\* ChainManager.UpdatesSince(idx, max) when the tip is `tip`: revert until on
\* the best chain, then apply towards the tip, at most max updates in all
RECURSIVE UpdatesSince(_, _, _)
UpdatesSince(idx, tip, max) ==
    IF idx = tip \/ max = 0 THEN [crus |-> <<>>, caus |-> <<>>]
    ELSE IF ~onBestChain(idx, tip)
    THEN LET rest == UpdatesSince(Parent(idx), tip, max - 1)
         IN [rest EXCEPT !.crus = <<RevertUpdateOf(idx)>> \o @]
    ELSE LET next == IF idx = ZeroIndex THEN Genesis ELSE BestIndex(tip, idx.height + 1)
             rest == UpdatesSince(next, tip, max - 1)
         IN [rest EXCEPT !.caus = <<ApplyUpdateOf(next)>> \o @]

(***************************************************************************)
(* Positions of processUpdates inside the batch (crus, caus).              *)
(*   revert, u, e : element e of crus[u] is next; e past the last element  *)
(*                  means wallet.RevertChainUpdate is next                 *)
(*   apply, u, e  : e = 0 means the host announcements of caus[u] are      *)
(*                  next, otherwise element e of caus[u]                   *)
(***************************************************************************)
Pos(phase, u, e) == [phase |-> phase, u |-> u, e |-> e]
NoPos == Pos("none", 0, 0)
ApplyStart == IF caus = <<>> THEN Pos("walletApply", 0, 0) ELSE Pos("apply", 1, 0)
\* mutant: the applies are processed without the reverts before them
StartPosAppliesFirst == ApplyStart
StartPos == IF crus = <<>> THEN ApplyStart ELSE Pos("revert", 1, 1)
AfterRevert(u) == IF u < Len(crus) THEN Pos("revert", u + 1, 1) ELSE ApplyStart
AfterApply(u, e) ==
    IF e < Len(Elements(caus[u])) THEN Pos("apply", u, e + 1)
    ELSE IF u < Len(caus) THEN Pos("apply", u + 1, 0)
    ELSE Pos("walletApply", 0, 0)

IdlePcs == {"idle", "sync_ok", "sync_err"}

\* the calls cs are made on the open transaction and the k-th fails (0: none)
TxCalls(cs, k) ==
    /\ txLog' = txLog \o Issued(cs, k)
    /\ tx' = Effects(tx, Done(cs, k))

\* processUpdates goes on at nextPos, or returns (types.ChainIndex{}, err) to
\* sync, which assigns the result to its index
Outcome(failed, nextPos, nextIndex) ==
    IF failed
    THEN /\ pc' = "failed"
         /\ index' = ZeroIndex
         /\ cursor' = ZeroIndex
         /\ pos' = pos
    ELSE /\ pc' = "tx"
         /\ index' = nextIndex
         /\ cursor' = cursor
         /\ pos' = nextPos

\* mutant: the set is replaced by the new ID
AddContractIDReplaces(id) ==
    /\ knownContracts' = {id}
    /\ UNCHANGED <<now, cmTip, store, pc, cursor, crus, caus, attempt, pos, index,
                   tx, txLog, txBegin, lastCall, lastWalk>>
    /\ UNCHANGED lifeVars
    /\ UNCHANGED compVars
    /\ UNCHANGED batchHist

(***************************************************************************)
(* Subscriber.AddContractID, called by the contract store at any time.     *)
(***************************************************************************)
AddContractID(id) ==
    /\ knownContracts' = knownContracts \cup {id}
    /\ UNCHANGED <<now, cmTip, store, pc, cursor, crus, caus, attempt, pos, index,
                   tx, txLog, txBegin, lastCall, lastWalk>>
    /\ UNCHANGED lifeVars
    /\ UNCHANGED compVars
    /\ UNCHANGED batchHist

(***************************************************************************)
(* The chain manager changes its tip, to a block of greater height on      *)
(* either fork.  The subscriber reads the tip only in Tip() and            *)
(* UpdatesSince, so only changes right before these matter.                *)
(***************************************************************************)
Reorg(t) ==
    /\ pc \in {"sync_loop", "fetch"}
    /\ t # cmTip
    /\ t.height > cmTip.height
    /\ cmTip' = t
    /\ UNCHANGED <<knownContracts, now, store, pc, cursor, crus, caus, attempt, pos,
                   index, tx, txLog, txBegin, lastCall, lastWalk>>
    /\ UNCHANGED lifeVars
    /\ UNCHANGED compVars
    /\ UNCHANGED batchHist

(***************************************************************************)
(* Subscriber.sync.                                                        *)
(***************************************************************************)
\* s.sync(index) is entered with the index read from the store
EnterSync ==
    /\ cursor' = store.tip
    /\ attempt' = 0
    /\ pc' = "sync_loop"
    /\ crus' = <<>> /\ caus' = <<>>
    /\ pos' = NoPos /\ index' = ZeroIndex
    /\ tx' = store /\ txLog' = <<>> /\ txBegin' = store
    /\ lastCall' = NoCall /\ lastWalk' = NoWalk
    /\ begun' = 0 /\ commits' = 0

\* index, err := s.cs.ChainIndex(); s.sync(index)
StartSync ==
    /\ pc \in IdlePcs
    /\ EnterSync
    /\ UNCHANGED <<knownContracts, now, cmTip, store>>
    /\ UNCHANGED lifeVars
    /\ UNCHANGED compVars

\* for index != s.cm.Tip()
SyncTip ==
    /\ pc = "sync_loop"
    /\ pc' = IF cursor = cmTip THEN "sync_ok" ELSE "fetch"
    /\ UNCHANGED <<knownContracts, now, cmTip, store, cursor, crus, caus, attempt,
                   pos, index, tx, txLog, txBegin, lastCall, lastWalk>>
    /\ UNCHANGED lifeVars
    /\ UNCHANGED compVars
    /\ UNCHANGED batchHist

\* crus, caus, err := s.cm.UpdatesSince(index, updatesBatchSize), err == nil
Fetch ==
    /\ pc = "fetch"
    /\ LET b == UpdatesSince(cursor, cmTip, MaxBatchUpdates)
       IN /\ crus' = b.crus
          /\ caus' = b.caus
    /\ attempt' = 1
    /\ begun' = 0 /\ commits' = 0
    /\ pc' = "begin"
    /\ UNCHANGED <<knownContracts, now, cmTip, store, cursor, pos, index, tx, txLog,
                   txBegin, lastCall, lastWalk>>
    /\ UNCHANGED lifeVars
    /\ UNCHANGED compVars

\* UpdatesSince returns an error and sync returns it
FetchFails ==
    /\ pc = "fetch"
    /\ pc' = "sync_err"
    /\ UNCHANGED <<knownContracts, now, cmTip, store, cursor, crus, caus, attempt,
                   pos, index, tx, txLog, txBegin, lastCall, lastWalk>>
    /\ UNCHANGED lifeVars
    /\ UNCHANGED compVars
    /\ UNCHANGED batchHist

\* err == nil: break out of the retry loop
Break ==
    /\ pc = "processed"
    /\ pc' = "sync_loop"
    /\ UNCHANGED <<knownContracts, now, cmTip, store, cursor, crus, caus, attempt,
                   pos, index, tx, txLog, txBegin, lastCall, lastWalk>>
    /\ UNCHANGED lifeVars
    /\ UNCHANGED compVars
    /\ UNCHANGED batchHist

\* mutant: gives up one attempt early
RetryOneShort ==
    /\ pc = "failed"
    /\ IF attempt = retryTxIntervals
       THEN pc' = "sync_err" /\ attempt' = attempt
       ELSE pc' = "begin" /\ attempt' = attempt + 1
    /\ UNCHANGED <<knownContracts, now, cmTip, store, cursor, crus, caus, pos, index,
                   tx, txLog, txBegin, lastCall, lastWalk>>
    /\ UNCHANGED lifeVars
    /\ UNCHANGED compVars
    /\ UNCHANGED batchHist

\* err != nil: give up after the last attempt, else sleep and try again
Retry ==
    /\ pc = "failed"
    /\ IF attempt - 1 = retryTxIntervals
       THEN pc' = "sync_err" /\ attempt' = attempt
       ELSE pc' = "begin" /\ attempt' = attempt + 1
    /\ UNCHANGED <<knownContracts, now, cmTip, store, cursor, crus, caus, pos, index,
                   tx, txLog, txBegin, lastCall, lastWalk>>
    /\ UNCHANGED lifeVars
    /\ UNCHANGED compVars
    /\ UNCHANGED batchHist

(***************************************************************************)
(* Subscriber.processUpdates, one action per call it makes.                *)
(***************************************************************************)
BeginChainUpdateTx ==
    /\ pc = "begin"
    /\ tx' = store
    /\ txLog' = <<>>
    /\ txBegin' = store
    /\ index' = ZeroIndex
    /\ pos' = StartPos
    /\ pc' = "tx"
    /\ lastCall' = NoCall /\ lastWalk' = NoWalk
    /\ begun' = begun + 1
    /\ UNCHANGED <<knownContracts, now, cmTip, store, cursor, crus, caus, attempt,
                   commits>>
    /\ UNCHANGED lifeVars
    /\ UNCHANGED compVars

\* revertChainUpdate: updateContract for one element of crus[pos.u]
RevertElement ==
    /\ pc = "tx" /\ pos.phase = "revert"
    /\ pos.e <= Len(Elements(crus[pos.u]))
    /\ LET cru == crus[pos.u]
           e == Elements(cru)[pos.e]
           a == revertArgs(e)
           cs == updateContract(tx, cru.index, e.id, a.prev, a.curr, a.resolved, a.valid)
       IN \E k \in FailPoints(cs) :
            /\ TxCalls(cs, k)
            /\ lastCall' = CallRecord(tx, cru.index, e.id, a.prev, a.curr, a.resolved,
                                      a.valid, cs, k)
            /\ Outcome(k # 0, Pos("revert", pos.u, pos.e + 1), index)
    /\ UNCHANGED <<knownContracts, now, cmTip, store, crus, caus, attempt, txBegin,
                   lastWalk>>
    /\ UNCHANGED lifeVars
    /\ UNCHANGED compVars
    /\ UNCHANGED batchHist

\* wallet.RevertChainUpdate(tx, s.walletAddress, cru); index = cru.State.Index
RevertWallet ==
    /\ pc = "tx" /\ pos.phase = "revert"
    /\ pos.e > Len(Elements(crus[pos.u]))
    /\ LET cru == crus[pos.u]
           cs == <<CallWalletRevert(cru.index)>>
       IN \E k \in FailPoints(cs) :
            /\ TxCalls(cs, k)
            /\ Outcome(k # 0, AfterRevert(pos.u), cru.index)
    /\ UNCHANGED <<knownContracts, now, cmTip, store, crus, caus, attempt, txBegin,
                   lastCall, lastWalk>>
    /\ UNCHANGED lifeVars
    /\ UNCHANGED compVars
    /\ UNCHANGED batchHist

\* applyChainUpdates: the head of one turn of the loop, the host announcements
\* of caus[pos.u]; an old block ends the turn
ApplyHosts ==
    /\ pc = "tx" /\ pos.phase = "apply" /\ pos.e = 0
    /\ \E clock \in now..MaxNow :
         LET cau == caus[pos.u]
             old == tooOld(cau.ts, clock)
             cs == IF old THEN <<>> ELSE hostCalls(cau, cau.anns)
         IN \E k \in FailPoints(cs) :
              /\ now' = clock
              /\ TxCalls(cs, k)
              /\ lastWalk' = [update |-> cau, clock |-> clock, calls |-> Issued(cs, k),
                              err |-> k # 0]
              /\ Outcome(k # 0,
                         IF old THEN AfterApply(pos.u, Len(Elements(cau)))
                         ELSE AfterApply(pos.u, 0),
                         index)
    /\ UNCHANGED <<knownContracts, cmTip, store, crus, caus, attempt, txBegin, lastCall>>
    /\ UNCHANGED lifeVars
    /\ UNCHANGED compVars
    /\ UNCHANGED batchHist

\* applyChainUpdates: updateContract for one element of caus[pos.u]
ApplyElement ==
    /\ pc = "tx" /\ pos.phase = "apply" /\ pos.e > 0
    /\ LET cau == caus[pos.u]
           e == Elements(cau)[pos.e]
           a == applyArgs(e)
           cs == updateContract(tx, cau.index, e.id, a.prev, a.curr, a.resolved, a.valid)
       IN \E k \in FailPoints(cs) :
            /\ TxCalls(cs, k)
            /\ lastCall' = CallRecord(tx, cau.index, e.id, a.prev, a.curr, a.resolved,
                                      a.valid, cs, k)
            /\ Outcome(k # 0, AfterApply(pos.u, pos.e), index)
    /\ UNCHANGED <<knownContracts, now, cmTip, store, crus, caus, attempt, txBegin,
                   lastWalk>>
    /\ UNCHANGED lifeVars
    /\ UNCHANGED compVars
    /\ UNCHANGED batchHist

\* mutant: index is not moved to the last apply update
ApplyWalletKeepsIndex ==
    /\ pc = "tx" /\ pos.phase = "walletApply"
    /\ LET cs == <<CallWalletApply(IF caus = <<>> THEN tx.wallet
                                   ELSE caus[Len(caus)].index)>>
       IN \E k \in FailPoints(cs) :
            /\ TxCalls(cs, k)
            /\ Outcome(k # 0, Pos("chainIndex", 0, 0), index)
    /\ UNCHANGED <<knownContracts, now, cmTip, store, crus, caus, attempt, txBegin,
                   lastCall, lastWalk>>
    /\ UNCHANGED lifeVars
    /\ UNCHANGED compVars
    /\ UNCHANGED batchHist

\* wallet.ApplyChainUpdates(tx, s.walletAddress, caus); index = last apply
ApplyWallet ==
    /\ pc = "tx" /\ pos.phase = "walletApply"
    /\ LET cs == <<CallWalletApply(IF caus = <<>> THEN tx.wallet
                                   ELSE caus[Len(caus)].index)>>
       IN \E k \in FailPoints(cs) :
            /\ TxCalls(cs, k)
            /\ Outcome(k # 0, Pos("chainIndex", 0, 0),
                       IF Len(caus) > 0 THEN caus[Len(caus)].index ELSE index)
    /\ UNCHANGED <<knownContracts, now, cmTip, store, crus, caus, attempt, txBegin,
                   lastCall, lastWalk>>
    /\ UNCHANGED lifeVars
    /\ UNCHANGED compVars
    /\ UNCHANGED batchHist

\* mutant: the tip is written to the store directly, outside the transaction
UpdateChainIndexOutsideTx ==
    /\ pc = "tx" /\ pos.phase = "chainIndex"
    /\ LET cs == <<CallUpdateChainIndex(index)>>
       IN \E k \in FailPoints(cs) :
            /\ TxCalls(cs, k)
            /\ store' = IF k = 0 THEN [store EXCEPT !.tip = index] ELSE store
            /\ Outcome(k # 0, Pos("failedContracts", 0, 0), index)
    /\ UNCHANGED <<knownContracts, now, cmTip, crus, caus, attempt, txBegin,
                   lastCall, lastWalk>>
    /\ UNCHANGED lifeVars
    /\ UNCHANGED compVars
    /\ UNCHANGED batchHist

\* tx.UpdateChainIndex(index)
UpdateChainIndex ==
    /\ pc = "tx" /\ pos.phase = "chainIndex"
    /\ LET cs == <<CallUpdateChainIndex(index)>>
       IN \E k \in FailPoints(cs) :
            /\ TxCalls(cs, k)
            /\ Outcome(k # 0, Pos("failedContracts", 0, 0), index)
    /\ UNCHANGED <<knownContracts, now, cmTip, store, crus, caus, attempt, txBegin,
                   lastCall, lastWalk>>
    /\ UNCHANGED lifeVars
    /\ UNCHANGED compVars
    /\ UNCHANGED batchHist

\* mutant: the wallet is written once more after the sweep
UpdateFailedContractsThenWallet ==
    /\ pc = "tx" /\ pos.phase = "failedContracts"
    /\ LET cs == <<CallUpdateFailedContracts(index.height), CallWalletApply(index)>>
       IN \E k \in FailPoints(cs) :
            /\ TxCalls(cs, k)
            /\ Outcome(k # 0, Pos("commit", 0, 0), index)
    /\ UNCHANGED <<knownContracts, now, cmTip, store, crus, caus, attempt, txBegin,
                   lastCall, lastWalk>>
    /\ UNCHANGED lifeVars
    /\ UNCHANGED compVars
    /\ UNCHANGED batchHist

\* mutant: the sweep runs at the height the batch started from
UpdateFailedContractsCursorHeight ==
    /\ pc = "tx" /\ pos.phase = "failedContracts"
    /\ LET cs == <<CallUpdateFailedContracts(cursor.height)>>
       IN \E k \in FailPoints(cs) :
            /\ TxCalls(cs, k)
            /\ Outcome(k # 0, Pos("commit", 0, 0), index)
    /\ UNCHANGED <<knownContracts, now, cmTip, store, crus, caus, attempt, txBegin,
                   lastCall, lastWalk>>
    /\ UNCHANGED lifeVars
    /\ UNCHANGED compVars
    /\ UNCHANGED batchHist

\* tx.UpdateFailedContracts(index.Height)
UpdateFailedContracts ==
    /\ pc = "tx" /\ pos.phase = "failedContracts"
    /\ LET cs == <<CallUpdateFailedContracts(index.height)>>
       IN \E k \in FailPoints(cs) :
            /\ TxCalls(cs, k)
            /\ Outcome(k # 0, Pos("commit", 0, 0), index)
    /\ UNCHANGED <<knownContracts, now, cmTip, store, crus, caus, attempt, txBegin,
                   lastCall, lastWalk>>
    /\ UNCHANGED lifeVars
    /\ UNCHANGED compVars
    /\ UNCHANGED batchHist

\* mutant: sync drops the index processUpdates returns
CommitKeepsCursor ==
    /\ pc = "tx" /\ pos.phase = "commit"
    /\ txLog' = Append(txLog, CallCommit)
    /\ store' = tx
    /\ cursor' = cursor
    /\ pc' = "processed"
    /\ pos' = NoPos
    /\ commits' = commits + 1
    /\ UNCHANGED <<knownContracts, now, cmTip, crus, caus, attempt, index, tx,
                   txBegin, lastCall, lastWalk, begun>>
    /\ UNCHANGED lifeVars
    /\ UNCHANGED compVars

\* tx.Commit() succeeds: the copy is published and processUpdates returns
\* (index, nil), which sync assigns to its index
Commit ==
    /\ pc = "tx" /\ pos.phase = "commit"
    /\ txLog' = Append(txLog, CallCommit)
    /\ store' = tx
    /\ cursor' = index
    /\ pc' = "processed"
    /\ pos' = NoPos
    /\ commits' = commits + 1
    /\ UNCHANGED <<knownContracts, now, cmTip, crus, caus, attempt, index, tx,
                   txBegin, lastCall, lastWalk, begun>>
    /\ UNCHANGED lifeVars
    /\ UNCHANGED compVars

\* tx.Commit() fails: nothing is published
CommitFails ==
    /\ pc = "tx" /\ pos.phase = "commit"
    /\ txLog' = Append(txLog, CallCommit)
    /\ Outcome(TRUE, pos, index)
    /\ UNCHANGED <<knownContracts, now, cmTip, store, crus, caus, attempt, tx,
                   txBegin, lastCall, lastWalk>>
    /\ UNCHANGED lifeVars
    /\ UNCHANGED compVars
    /\ UNCHANGED batchHist

(***************************************************************************)
(* The data of the webhook manager.                                        *)
(***************************************************************************)
URLs == 1..NumURLs
\* the webhooks that can be registered: one per URL for every event of the
\* module m1, and one more on the first URL for its event e1
Webhook(module, event, url) == [module |-> module, event |-> event, url |-> url]
Webhooks == {Webhook("m1", "", u) : u \in URLs} \cup {Webhook("m1", "e1", 1)}
\* the events that can be broadcast; the payload tells the calls apart
Event(module, event, payload) == [module |-> module, event |-> event, payload |-> payload]
EventKinds == {<<"m1", "e1">>, <<"m1", "e2">>, <<"m2", "e1">>}
\* a URL without a queue, and a queue as BroadcastAction creates it
NoQueue == [exists |-> FALSE, isDequeueing |-> FALSE, events |-> <<>>]
NewQueue == [exists |-> TRUE, isDequeueing |-> FALSE, events |-> <<>>]
\* Manager.mu is free
NoBroadcast == [running |-> FALSE, event |-> <<>>, todo |-> {}]

\* NewManager: no webhooks, no queues, the context not cancelled
NewManager ==
    /\ webhooks = {}
    /\ queues = [u \in URLs |-> NoQueue]
    /\ dequeuers = [u \in URLs |-> <<>>]
    /\ broadcast = NoBroadcast
    /\ ctxDone = FALSE
    /\ closepc = "open"
    /\ emitted = 0
    /\ appended = [u \in URLs |-> <<>>]
    /\ handed = [u \in URLs |-> <<>>]

\* no comparison of runs is under way
NoCompose == [phase |-> "none", crus |-> <<>>, caus |-> <<>>, split |-> 0,
              initial |-> <<>>, whole |-> <<>>]

\* Run has not been called: no worker, no signal, nothing closed
NotRunning ==
    /\ begun = 0
    /\ commits = 0
    /\ retryTxIntervals = NumRetryIntervals
    /\ runpc = "none"
    /\ worker = "none"
    /\ syncSig = 0
    /\ closedChan = FALSE
    /\ onReorg = FALSE
    /\ awaited = "none"
    /\ closedAt = "open"
    /\ lastPass = "none"
    /\ compose = NoCompose
    /\ lastPost = "none"
    /\ NewManager

Init ==
    /\ knownContracts \in SUBSET FCIDs
    /\ now = 0
    /\ cmTip = Genesis
    /\ store = StoreWith(ZeroIndex, ContractStatePending)
    /\ pc = "idle"
    /\ cursor = ZeroIndex
    /\ crus = <<>>
    /\ caus = <<>>
    /\ attempt = 0
    /\ pos = NoPos
    /\ index = ZeroIndex
    /\ tx = store
    /\ txLog = <<>>
    /\ txBegin = store
    /\ lastCall = NoCall
    /\ lastWalk = NoWalk
    /\ NotRunning

Next ==
    \/ \E id \in FCIDs : AddContractID(id)
    \/ \E t \in ChainIndices : Reorg(t)
    \/ StartSync
    \/ SyncTip
    \/ Fetch
    \/ FetchFails
    \/ Break
    \/ Retry
    \/ BeginChainUpdateTx
    \/ RevertElement
    \/ RevertWallet
    \/ ApplyHosts
    \/ ApplyElement
    \/ ApplyWallet
    \/ UpdateChainIndex
    \/ UpdateFailedContracts
    \/ Commit
    \/ CommitFails

Spec == Init /\ [][Next]_vars

(***************************************************************************)
(* The walkers on their own: processUpdates on a batch of one update with  *)
(* any announcements and any one file contract element, from any contract  *)
(* state and any set of known contracts.                                   *)
(***************************************************************************)
WalkRevs == {Rev(4, 1024), Rev(MaxRevisionNumber, 0)}
WalkOptRevs == {NoRev} \cup {Some(r) : r \in WalkRevs}
WalkV1 == {V1(id, fce, rev, r, v) : id \in FCIDs, fce \in WalkRevs, rev \in WalkOptRevs,
                                    r \in BOOLEAN, v \in BOOLEAN}
WalkV2 == {V2(id, fce, rev, res) : id \in FCIDs, fce \in WalkRevs, rev \in WalkOptRevs,
                                   res \in Resolutions}
WalkAnns == {<<>>, <<Ann(1, "")>>, <<Ann(1, "host:9982")>>,
             <<Ann(1, ""), Ann(2, "host:9982")>>,
             <<Ann(1, "host:9982"), Ann(2, "host:9982")>>}
WalkIndex == Idx(1, BlockID(1, 1))
WalkApplies ==
    {Update(WalkIndex, 0, anns, <<>>, <<>>) : anns \in WalkAnns}
    \cup {Update(WalkIndex, 0, anns, <<e>>, <<>>) : anns \in WalkAnns, e \in WalkV1}
    \cup {Update(WalkIndex, 0, anns, <<>>, <<e>>) : anns \in WalkAnns, e \in WalkV2}
WalkReverts ==
    {Update(Genesis, 0, <<>>, <<e>>, <<>>) : e \in WalkV1}
    \cup {Update(Genesis, 0, <<>>, <<>>, <<e>>) : e \in WalkV2}

WalkerInit ==
    /\ knownContracts \in SUBSET FCIDs
    /\ now = 0
    /\ cmTip = WalkIndex
    /\ \E p \in ContractStates : store = StoreWith(Genesis, p)
    /\ pc = "begin"
    /\ cursor = Genesis
    /\ \/ crus = <<>> /\ \E u \in WalkApplies : caus = <<u>>
       \/ caus = <<>> /\ \E u \in WalkReverts : crus = <<u>>
    /\ attempt = 1
    /\ pos = NoPos
    /\ index = ZeroIndex
    /\ tx = store
    /\ txLog = <<>>
    /\ txBegin = store
    /\ lastCall = NoCall
    /\ lastWalk = NoWalk
    /\ NotRunning

WalkerNext ==
    \/ BeginChainUpdateTx
    \/ RevertElement
    \/ RevertWallet
    \/ ApplyHosts
    \/ ApplyElement
    \/ ApplyWallet
    \/ UpdateChainIndex
    \/ UpdateFailedContracts
    \/ Commit
    \/ CommitFails

SpecWalker == WalkerInit /\ [][WalkerNext]_vars

(***************************************************************************)
(* The deriver on its own: one call of updateContract with any arguments   *)
(* on a fresh transaction, from any contract state and any set of known    *)
(* contracts.                                                              *)
(***************************************************************************)
DeriverIndices == {Idx(h, BlockID(h, 1)) : h \in Heights}

DeriverInit ==
    /\ knownContracts \in SUBSET FCIDs
    /\ now = 0
    /\ cmTip = Genesis
    /\ \E p \in ContractStates : store = StoreWith(Genesis, p)
    /\ pc = "deriver"
    /\ cursor = Genesis
    /\ crus = <<>>
    /\ caus = <<>>
    /\ attempt = 1
    /\ pos = NoPos
    /\ index = ZeroIndex
    /\ tx = store
    /\ txLog = <<>>
    /\ txBegin = store
    /\ lastCall = NoCall
    /\ lastWalk = NoWalk
    /\ NotRunning

\* s.updateContract(tx, idx, fcid, prev, curr, resolved, valid)
DeriverCall(idx, fcid, prev, curr, resolved, valid) ==
    /\ pc = "deriver"
    /\ LET cs == updateContract(tx, idx, fcid, prev, curr, resolved, valid)
       IN \E k \in FailPoints(cs) :
            /\ TxCalls(cs, k)
            /\ lastCall' = CallRecord(tx, idx, fcid, prev, curr, resolved, valid, cs, k)
    /\ pc' = "deriver_done"
    /\ UNCHANGED <<knownContracts, now, cmTip, store, cursor, crus, caus, attempt,
                   pos, index, txBegin, lastWalk>>
    /\ UNCHANGED lifeVars
    /\ UNCHANGED compVars
    /\ UNCHANGED batchHist

\* a call with prev = nil
DeriverApply ==
    \E idx \in DeriverIndices, fcid \in FCIDs, curr \in OptRevisions,
       resolved \in BOOLEAN, valid \in BOOLEAN :
        DeriverCall(idx, fcid, NoRev, curr, resolved, valid)

\* a call with prev # nil
DeriverRevert ==
    \E idx \in DeriverIndices, fcid \in FCIDs, prev \in OptRevisions \ {NoRev},
       curr \in OptRevisions, resolved \in BOOLEAN, valid \in BOOLEAN :
        DeriverCall(idx, fcid, prev, curr, resolved, valid)

DeriverNext == DeriverApply \/ DeriverRevert

SpecDeriver == DeriverInit /\ [][DeriverNext]_vars

(***************************************************************************)
(* Subscriber.Run, the goroutine it starts, the callback it registers with *)
(* the chain manager, and Subscriber.Close.  The caller of Run and the     *)
(* worker never run sync at the same time, so both use pc, cursor and the  *)
(* other locals of sync.                                                   *)
(***************************************************************************)
\* the positions of sync inside a batch: after UpdatesSince, before the next
\* test of the loop condition
BatchPcs == {"begin", "tx", "failed", "processed"}

\* sync has returned to its caller
Returned == pc \in {"sync_ok", "sync_err"}

\* sync returns to its caller: its locals and the abandoned transaction are gone
LeaveSync ==
    /\ pc' = "idle"
    /\ cursor' = ZeroIndex
    /\ attempt' = 0
    /\ crus' = <<>> /\ caus' = <<>>
    /\ pos' = NoPos /\ index' = ZeroIndex
    /\ tx' = store /\ txLog' = <<>> /\ txBegin' = store
    /\ lastCall' = NoCall /\ lastWalk' = NoWalk
    /\ begun' = 0 /\ commits' = 0

\* mutant: every post is kept, as on a channel without a bound
triggerSyncKeepsAll ==
    /\ syncSig' = syncSig + 1
    /\ lastPost' = IF syncSig < syncSigCap THEN "sent" ELSE "dropped"

\* s.triggerSync(): select { case s.syncSig <- struct{}{}: default: }, a send
\* that never blocks: buffered when there is room, dropped otherwise
triggerSync ==
    /\ syncSig' = IF syncSig < syncSigCap THEN syncSig + 1 ELSE syncSig
    /\ lastPost' = IF syncSig < syncSigCap THEN "sent" ELSE "dropped"

\* index, err := s.cs.ChainIndex(); err == nil; s.sync(index)
RunChainIndex ==
    /\ runpc = "none"
    /\ runpc' = "sync"
    /\ EnterSync
    /\ UNCHANGED <<knownContracts, now, cmTip, store, retryTxIntervals, worker,
                   syncSig, closedChan, onReorg, awaited, closedAt, lastPass>>
    /\ UNCHANGED compVars

\* s.cs.ChainIndex() fails and Run returns the error
RunChainIndexFails ==
    /\ runpc = "none"
    /\ runpc' = "error"
    /\ UNCHANGED <<knownContracts, now, cmTip, store, pc, cursor, crus, caus, attempt,
                   pos, index, tx, txLog, txBegin, lastCall, lastWalk,
                   retryTxIntervals, worker, syncSig, closedChan, onReorg, awaited,
                   closedAt, lastPass>>
    /\ UNCHANGED batchHist
    /\ UNCHANGED compVars

\* the initial sync fails and Run returns the error
RunSyncFails ==
    /\ runpc = "sync" /\ pc = "sync_err"
    /\ runpc' = "error"
    /\ LeaveSync
    /\ UNCHANGED <<knownContracts, now, cmTip, store, retryTxIntervals, worker, syncSig, closedChan, onReorg, awaited,
                   closedAt, lastPass>>
    /\ UNCHANGED compVars

\* the initial sync succeeded: go func() { ... }()
RunSpawn ==
    /\ runpc = "sync" /\ pc = "sync_ok"
    /\ runpc' = "spawned"
    /\ worker' = "select"
    /\ LeaveSync
    /\ UNCHANGED <<knownContracts, now, cmTip, store, retryTxIntervals, syncSig, closedChan, onReorg, awaited,
                   closedAt, lastPass>>
    /\ UNCHANGED compVars

\* return s.cm.OnReorg(func(_ types.ChainIndex) { s.triggerSync() }), nil
RunOnReorg ==
    /\ runpc = "spawned"
    /\ runpc' = "returned"
    /\ onReorg' = TRUE
    /\ UNCHANGED <<knownContracts, now, cmTip, store, pc, cursor, crus, caus, attempt,
                   pos, index, tx, txLog, txBegin, lastCall, lastWalk,
                   retryTxIntervals, worker, syncSig, closedChan, awaited,
                   closedAt, lastPass>>
    /\ UNCHANGED batchHist
    /\ UNCHANGED compVars

\* mutant: the callback posts only to a worker that waits in its select
TipChangeEdge(t) ==
    /\ pc \in {"idle", "sync_loop"}
    /\ t.height > cmTip.height
    /\ cmTip' = t
    /\ IF onReorg
       THEN /\ IF worker = "select" THEN triggerSync
               ELSE UNCHANGED <<syncSig, lastPost>>
            /\ awaited' = IF closedChan THEN awaited ELSE "posted"
       ELSE UNCHANGED <<syncSig, awaited, lastPost>>
    /\ UNCHANGED <<knownContracts, now, store, pc, cursor, crus, caus, attempt, pos,
                   index, tx, txLog, txBegin, lastCall, lastWalk, retryTxIntervals,
                   runpc, worker, closedChan, onReorg, closedAt, lastPass>>
    /\ UNCHANGED batchHist
    /\ UNCHANGED <<compose, hookVars>>

\* The chain manager changes its tip, to a block of greater height on either
\* fork, and calls the callbacks registered with OnReorg.  The subscriber
\* reads the tip at the head of the loop of sync and in UpdatesSince, and a
\* higher tip always differs from the cursor, so a change at any other
\* moment is the same change right before the next test of the loop.
TipChange(t) ==
    /\ pc \in {"idle", "sync_loop"}
    /\ t.height > cmTip.height
    /\ cmTip' = t
    /\ IF onReorg
       THEN /\ triggerSync
            /\ awaited' = IF closedChan THEN awaited ELSE "posted"
       ELSE UNCHANGED <<syncSig, awaited, lastPost>>
    /\ UNCHANGED <<knownContracts, now, store, pc, cursor, crus, caus, attempt, pos,
                   index, tx, txLog, txBegin, lastCall, lastWalk, retryTxIntervals,
                   runpc, worker, closedChan, onReorg, closedAt, lastPass>>
    /\ UNCHANGED batchHist
    /\ UNCHANGED <<compose, hookVars>>

\* select: case <-s.syncSig
WorkerWake ==
    /\ worker = "select"
    /\ syncSig > 0
    /\ syncSig' = syncSig - 1
    /\ lastPost' = IF syncSig' = 0 THEN "none" ELSE lastPost
    /\ worker' = "woken"
    /\ UNCHANGED <<knownContracts, now, cmTip, store, pc, cursor, crus, caus, attempt,
                   pos, index, tx, txLog, txBegin, lastCall, lastWalk,
                   retryTxIntervals, runpc, closedChan, onReorg, awaited, closedAt,
                   lastPass>>
    /\ UNCHANGED batchHist
    /\ UNCHANGED <<compose, hookVars>>

\* select: case <-s.closedChan: return
WorkerExit ==
    /\ worker = "select"
    /\ closedChan
    /\ worker' = "exited"
    /\ UNCHANGED <<knownContracts, now, cmTip, store, pc, cursor, crus, caus, attempt,
                   pos, index, tx, txLog, txBegin, lastCall, lastWalk,
                   retryTxIntervals, runpc, syncSig, closedChan, onReorg, awaited,
                   closedAt, lastPass>>
    /\ UNCHANGED batchHist
    /\ UNCHANGED compVars

\* ci, err := s.cs.ChainIndex(); err == nil; s.sync(ci)
WorkerChainIndex ==
    /\ worker = "woken"
    /\ worker' = "sync"
    /\ awaited' = "none"
    /\ EnterSync
    /\ UNCHANGED <<knownContracts, now, cmTip, store, retryTxIntervals, runpc,
                   syncSig, closedChan, onReorg, closedAt, lastPass>>
    /\ UNCHANGED compVars

\* s.cs.ChainIndex() fails: the error is logged, continue
WorkerChainIndexFails ==
    /\ worker = "woken"
    /\ worker' = "select"
    /\ awaited' = "none"
    /\ lastPass' = "noindex"
    /\ UNCHANGED <<knownContracts, now, cmTip, store, pc, cursor, crus, caus, attempt,
                   pos, index, tx, txLog, txBegin, lastCall, lastWalk,
                   retryTxIntervals, runpc, syncSig, closedChan, onReorg, closedAt>>
    /\ UNCHANGED batchHist
    /\ UNCHANGED compVars

\* mutant: the worker stops when sync returns an error
WorkerSyncReturnsStops ==
    /\ worker = "sync" /\ Returned
    /\ worker' = IF pc = "sync_err" THEN "exited" ELSE "select"
    /\ lastPass' = IF pc = "sync_err" THEN "err" ELSE "ok"
    /\ closedAt' = IF closedAt = "batch" THEN "drained" ELSE closedAt
    /\ LeaveSync
    /\ UNCHANGED <<knownContracts, now, cmTip, store, retryTxIntervals, runpc, syncSig, closedChan, onReorg, awaited>>
    /\ UNCHANGED compVars

\* s.sync(ci) returns: an error is logged; the loop goes back to its select
WorkerSyncReturns ==
    /\ worker = "sync" /\ Returned
    /\ worker' = "select"
    /\ lastPass' = IF pc = "sync_err" THEN "err" ELSE "ok"
    /\ closedAt' = IF closedAt = "batch" THEN "drained" ELSE closedAt
    /\ LeaveSync
    /\ UNCHANGED <<knownContracts, now, cmTip, store, retryTxIntervals, runpc, syncSig, closedChan, onReorg, awaited>>
    /\ UNCHANGED compVars

\* Subscriber.Close, called once after Run has returned: close(s.closedChan),
\* s.csUnsubscribeFn(), return nil
Close ==
    /\ runpc = "returned"
    /\ ~closedChan
    /\ closedChan' = TRUE
    /\ closedAt' = IF worker = "sync" /\ pc \in BatchPcs THEN "batch" ELSE "idle"
    /\ UNCHANGED <<knownContracts, now, cmTip, store, pc, cursor, crus, caus, attempt,
                   pos, index, tx, txLog, txBegin, lastCall, lastWalk,
                   retryTxIntervals, runpc, worker, syncSig, onReorg, awaited,
                   lastPass>>
    /\ UNCHANGED batchHist
    /\ UNCHANGED compVars

RunInit ==
    /\ knownContracts = {}
    /\ now = MaxNow
    /\ cmTip = Genesis
    /\ store = StoreWith(ZeroIndex, ContractStatePending)
    /\ pc = "idle"
    /\ cursor = ZeroIndex
    /\ crus = <<>>
    /\ caus = <<>>
    /\ attempt = 0
    /\ pos = NoPos
    /\ index = ZeroIndex
    /\ tx = store
    /\ txLog = <<>>
    /\ txBegin = store
    /\ lastCall = NoCall
    /\ lastWalk = NoWalk
    /\ NotRunning

\* the steps of sync and of processUpdates, by whoever runs sync
SyncStep ==
    \/ SyncTip
    \/ Fetch
    \/ FetchFails
    \/ Break
    \/ Retry
    \/ BeginChainUpdateTx
    \/ RevertElement
    \/ RevertWallet
    \/ ApplyHosts
    \/ ApplyElement
    \/ ApplyWallet
    \/ UpdateChainIndex
    \/ UpdateFailedContracts
    \/ Commit
    \/ CommitFails

\* the steps of the caller of Run, and those of the worker
RunStep ==
    \/ RunChainIndex
    \/ RunChainIndexFails
    \/ RunSyncFails
    \/ RunSpawn
    \/ RunOnReorg
    \/ (runpc = "sync" /\ SyncStep)
WorkerStep ==
    \/ WorkerWake
    \/ WorkerExit
    \/ WorkerChainIndex
    \/ WorkerChainIndexFails
    \/ WorkerSyncReturns
    \/ (worker = "sync" /\ SyncStep)

RunNext ==
    \/ RunChainIndex
    \/ RunChainIndexFails
    \/ RunSyncFails
    \/ RunSpawn
    \/ RunOnReorg
    \/ \E t \in ChainIndices : TipChange(t)
    \/ WorkerWake
    \/ WorkerExit
    \/ WorkerChainIndex
    \/ WorkerChainIndexFails
    \/ WorkerSyncReturns
    \/ Close
    \/ SyncTip
    \/ Fetch
    \/ FetchFails
    \/ Break
    \/ Retry
    \/ BeginChainUpdateTx
    \/ RevertElement
    \/ RevertWallet
    \/ ApplyHosts
    \/ ApplyElement
    \/ ApplyWallet
    \/ UpdateChainIndex
    \/ UpdateFailedContracts
    \/ Commit
    \/ CommitFails

SpecRun == RunInit /\ [][RunNext]_vars

\* The Go scheduler lets a goroutine that can take a step take one: the
\* caller of Run and the worker go on as long as they are not blocked.
SpecRunFair == SpecRun /\ WF_vars(RunStep) /\ WF_vars(WorkerStep)

(***************************************************************************)
(* Subscriber.sync on its own: one call of sync from any persisted tip     *)
(* towards any tip of the chain manager, with every length of              *)
(* retryTxIntervals from the empty list on.                                *)
(***************************************************************************)
RetryInit ==
    /\ knownContracts = FCIDs
    /\ now = MaxNow
    /\ cmTip \in ChainIndices
    /\ \E c \in {ZeroIndex} \cup ChainIndices : store = StoreWith(c, ContractStatePending)
    /\ pc = "sync_loop"
    /\ cursor = store.tip
    /\ crus = <<>>
    /\ caus = <<>>
    /\ attempt = 0
    /\ pos = NoPos
    /\ index = ZeroIndex
    /\ tx = store
    /\ txLog = <<>>
    /\ txBegin = store
    /\ lastCall = NoCall
    /\ lastWalk = NoWalk
    /\ begun = 0
    /\ commits = 0
    /\ retryTxIntervals \in 0..NumRetryIntervals
    /\ runpc = "none"
    /\ worker = "none"
    /\ syncSig = 0
    /\ closedChan = FALSE
    /\ onReorg = FALSE
    /\ awaited = "none"
    /\ closedAt = "open"
    /\ lastPass = "none"
    /\ compose = NoCompose
    /\ lastPost = "none"
    /\ NewManager

RetryNext ==
    \/ SyncTip
    \/ Fetch
    \/ FetchFails
    \/ Break
    \/ Retry
    \/ BeginChainUpdateTx
    \/ RevertElement
    \/ RevertWallet
    \/ ApplyHosts
    \/ ApplyElement
    \/ ApplyWallet
    \/ UpdateChainIndex
    \/ UpdateFailedContracts
    \/ Commit
    \/ CommitFails

SpecRetry == RetryInit /\ [][RetryNext]_vars

\* sync runs on one goroutine, which is scheduled as long as it has a step to
\* take; which of the outcomes a step has is not constrained
SpecRetryFair == SpecRetry /\ WF_vars(RetryNext)

(***************************************************************************)
(* processUpdates on the same updates in one batch and in two: from the    *)
(* fresh store the chain up to some block is committed, which gives a      *)
(* persisted state the program can be in; then updates U that              *)
(* UpdatesSince returns from there are committed as one batch, and again   *)
(* from the same persisted state as a prefix of U followed by the rest.    *)
(***************************************************************************)
MaxComposeUpdates == MaxBatchUpdates + 1

\* the first n updates of the batch b, and the others
BatchPrefix(b, n) ==
    [crus |-> SubSeq(b.crus, 1, IF n < Len(b.crus) THEN n ELSE Len(b.crus)),
     caus |-> SubSeq(b.caus, 1, IF n > Len(b.crus) THEN n - Len(b.crus) ELSE 0)]
BatchSuffix(b, n) ==
    [crus |-> SubSeq(b.crus, n + 1, Len(b.crus)),
     caus |-> SubSeq(b.caus, (IF n > Len(b.crus) THEN n - Len(b.crus) ELSE 0) + 1,
                     Len(b.caus))]
BatchLen(b) == Len(b.crus) + Len(b.caus)

ComposeInit ==
    /\ knownContracts \in SUBSET FCIDs
    /\ now = MaxNow
    /\ cmTip \in ChainIndices \ {Genesis}
    /\ store = StoreWith(ZeroIndex, ContractStatePending)
    /\ pc = "begin"
    /\ cursor = ZeroIndex
    /\ LET b == UpdatesSince(ZeroIndex, cmTip, MaxHeight + 1)
       IN crus = b.crus /\ caus = b.caus
    /\ attempt = 1
    /\ pos = NoPos
    /\ index = ZeroIndex
    /\ tx = store
    /\ txLog = <<>>
    /\ txBegin = store
    /\ lastCall = NoCall
    /\ lastWalk = NoWalk
    /\ begun = 0
    /\ commits = 0
    /\ retryTxIntervals = 0
    /\ runpc = "none"
    /\ worker = "none"
    /\ syncSig = 0
    /\ closedChan = FALSE
    /\ onReorg = FALSE
    /\ awaited = "none"
    /\ closedAt = "open"
    /\ lastPass = "none"
    /\ compose = [NoCompose EXCEPT !.phase = "setup"]
    /\ lastPost = "none"
    /\ NewManager

\* the next call of processUpdates, with the batch b
ComposeRun(b) ==
    /\ crus' = b.crus
    /\ caus' = b.caus
    /\ pc' = "begin"
    /\ attempt' = 1
    /\ UNCHANGED <<knownContracts, now, pos, index, tx, txLog, txBegin, lastCall,
                   lastWalk>>
    /\ UNCHANGED lifeVars
    /\ UNCHANGED batchHist

\* the chain manager moves its tip; the updates U from the persisted tip are
\* processed as one batch
ComposeWhole ==
    /\ pc = "processed" /\ compose.phase = "setup"
    /\ \E t \in ChainIndices, n \in 2..MaxComposeUpdates :
         LET b == UpdatesSince(store.tip, t, n)
         IN /\ BatchLen(b) >= 2
            /\ cmTip' = t
            /\ \E i \in 1..(BatchLen(b) - 1) :
                 compose' = [phase |-> "whole", crus |-> b.crus, caus |-> b.caus,
                             split |-> i, initial |-> store, whole |-> <<>>]
            /\ ComposeRun(b)
    /\ UNCHANGED <<store, cursor, lastPost, hookVars>>

\* back at the same persisted state, the prefix of U is processed
ComposePrefix ==
    /\ pc = "processed" /\ compose.phase = "whole"
    /\ compose' = [compose EXCEPT !.phase = "prefix", !.whole = store]
    /\ store' = compose.initial
    /\ cursor' = compose.initial.tip
    /\ ComposeRun(BatchPrefix(compose, compose.split))
    /\ UNCHANGED <<cmTip, lastPost, hookVars>>

\* then the rest of U
ComposeSuffix ==
    /\ pc = "processed" /\ compose.phase = "prefix"
    /\ compose' = [compose EXCEPT !.phase = "suffix"]
    /\ ComposeRun(BatchSuffix(compose, compose.split))
    /\ UNCHANGED <<cmTip, store, cursor, lastPost, hookVars>>

ComposeDone ==
    /\ pc = "processed" /\ compose.phase = "suffix"
    /\ compose' = [compose EXCEPT !.phase = "done"]
    /\ pc' = "composed"
    /\ UNCHANGED <<knownContracts, now, cmTip, store, cursor, crus, caus, attempt,
                   pos, index, tx, txLog, txBegin, lastCall, lastWalk, lastPost,
                   hookVars>>
    /\ UNCHANGED lifeVars
    /\ UNCHANGED batchHist

ComposeNext ==
    \/ ComposeWhole
    \/ ComposePrefix
    \/ ComposeSuffix
    \/ ComposeDone
    \/ BeginChainUpdateTx
    \/ RevertElement
    \/ RevertWallet
    \/ ApplyHosts
    \/ ApplyElement
    \/ ApplyWallet
    \/ UpdateChainIndex
    \/ UpdateFailedContracts
    \/ Commit
    \/ CommitFails

SpecCompose == ComposeInit /\ [][ComposeNext]_vars

(***************************************************************************)
(* Helpers of the properties.                                              *)
(***************************************************************************)
IsStateWrite(c) == c.op = "UpdateContractState"
\* the states written by the calls cs, in order
StateWrites(cs) ==
    LET ws == SelectSeq(cs, IsStateWrite) IN [i \in 1..Len(ws) |-> ws[i].state]
LastOr(w, p) == IF w = <<>> THEN p ELSE w[Len(w)]
Occurs(c, cs) == \E i \in 1..Len(cs) : cs[i] = c
CountOp(op, cs) == Cardinality({i \in 1..Len(cs) : cs[i].op = op})
\* the calls a step appends to the log of the open transaction
NewCalls ==
    IF Len(txLog') > Len(txLog) THEN SubSeq(txLog', Len(txLog) + 1, Len(txLog')) ELSE <<>>

(***************************************************************************)
(* C1. Atomicity of a batch: the persisted state changes only in the step  *)
(* in which Commit succeeds, and then becomes exactly what the transaction *)
(* staged (contract rows, host rows, wallet and tip together); while an    *)
(* attempt runs and after it failed at any call, the persisted state is    *)
(* what it was when the transaction began.                                 *)
(***************************************************************************)
C1_Atomicity ==
    /\ [](pc \in {"tx", "failed"} => store = txBegin)
    /\ [][/\ store' # store =>
               /\ pc = "tx" /\ pos.phase = "commit" /\ pc' = "processed"
               /\ store' = tx
               /\ NewCalls = <<CallCommit>>
          /\ pc' = "failed" => store' = txBegin']_vars

\* an attempt that staged contract writes and a tip and then failed at Commit
C1_Witness ==
    /\ pc = "failed"
    /\ txLog # <<>> /\ txLog[Len(txLog)] = CallCommit
    /\ tx.tip # store.tip
    /\ tx.contracts # store.contracts
    /\ store = txBegin

(***************************************************************************)
(* C2. After a committed processUpdates transaction, and after a sync that *)
(* returned nil having processed a batch, the persisted tip is State.Index *)
(* of the last apply update of the batch or, when the batch has no         *)
(* applies, of its last revert update.                                     *)
(***************************************************************************)
C2_TipIsLastUpdate ==
    (pc = "processed" \/ (pc = "sync_ok" /\ attempt > 0)) =>
        /\ caus # <<>> => store.tip = caus[Len(caus)].index
        /\ (caus = <<>> /\ crus # <<>>) => store.tip = crus[Len(crus)].index

\* a committed batch of reverts followed by applies
C2_Witness ==
    /\ pc = "processed"
    /\ crus # <<>> /\ caus # <<>>
    /\ store.tip = caus[Len(caus)].index
    /\ store.tip # crus[Len(crus)].index

(***************************************************************************)
(* C3. Known-contract confinement: whenever a step issues a call naming a  *)
(* file contract ID on the transaction (ContractState, UpdateContract,     *)
(* UpdateContractState, UpdateContractProofHeight), that ID is in          *)
(* knownContracts at that step, whatever AddContractID did before or does  *)
(* after.                                                                  *)
(***************************************************************************)
C3_Confinement ==
    [][\A i \in 1..Len(NewCalls) :
          NewCalls[i].op \in ContractOps => NewCalls[i].fcid \in knownContracts]_vars

\* an update naming a contract that was unknown when it was filtered and
\* was added afterwards, while the transaction is still open
C3_Witness ==
    /\ pc = "tx"
    /\ lastCall # NoCall
    /\ ~lastCall.known
    /\ lastCall.calls = <<>>
    /\ lastCall.fcid \in knownContracts
    /\ \A i \in 1..Len(txLog) :
          txLog[i].op \in ContractOps => txLog[i].fcid # lastCall.fcid

(***************************************************************************)
(* C4. Contract-state reachability: every state an updateContract call     *)
(* writes for a known contract follows an edge of the deriver's state      *)
(* machine.  On the apply path the edges are Pending -> Active,            *)
(* Unknown -> Active, any -> Complete and any -> Failed, so a contract     *)
(* that was Complete or Failed is never written Pending or Active by an    *)
(* apply; only the revert path writes Pending, or Active over a terminal   *)
(* state; and Unknown is never written.                                    *)
(***************************************************************************)
ApplyEdges ==
    ({ContractStatePending, ContractStateUnknown} \X {ContractStateActive})
    \cup (ContractStates \X {ContractStateComplete, ContractStateFailed})
RevertEdges == ContractStates \X {ContractStatePending, ContractStateActive}
Terminal == {ContractStateComplete, ContractStateFailed}

C4_Reachability ==
    lastCall # NoCall =>
        LET w == StateWrites(lastCall.calls)
            from(i) == IF i = 1 THEN lastCall.prior ELSE w[i - 1]
            edges == IF lastCall.prev = NoRev THEN ApplyEdges ELSE RevertEdges
        IN /\ \A i \in 1..Len(w) : <<from(i), w[i]>> \in edges
           /\ \A i \in 1..Len(w) : w[i] # ContractStateUnknown
           /\ (lastCall.prev = NoRev /\ lastCall.prior \in Terminal) =>
                 /\ \A i \in 1..Len(w) : w[i] \in Terminal
                 /\ lastCall.after \in Terminal
           /\ (lastCall.prior \in Terminal /\ lastCall.after \notin Terminal) =>
                 lastCall.prev # NoRev

\* an apply with a missed proof moves a completed contract to failed, and
\* writes nothing else
C4_Witness ==
    /\ lastCall # NoCall
    /\ lastCall.prev = NoRev
    /\ ~lastCall.err
    /\ lastCall.prior = ContractStateComplete
    /\ lastCall.after = ContractStateFailed
    /\ StateWrites(lastCall.calls) = <<ContractStateFailed>>

(***************************************************************************)
(* C5. Apply path of updateContract for a known contract with prior state  *)
(* p and current revision (n, size) at height H, no call failing: the      *)
(* first write is UpdateContract(H, n, size) and it is the only one;       *)
(* UpdateContractProofHeight(H) is issued iff resolved; the states written *)
(* are, in this order, Active if p is Pending or Unknown, Complete if      *)
(* n = MaxRevisionNumber and size = 0, and Complete or Failed (as valid    *)
(* says) if resolved, after the proof height; so the state ends Failed if  *)
(* resolved and not valid, Complete if resolved and valid or if not        *)
(* resolved and the revision is the renewal marker, Active if neither and  *)
(* p is Pending or Unknown, and otherwise nothing is written and it stays  *)
(* p.                                                                      *)
(***************************************************************************)
C5_ApplyPath ==
    (/\ lastCall # NoCall
     /\ lastCall.prev = NoRev /\ lastCall.curr # NoRev
     /\ lastCall.fcid \in knownContracts
     /\ ~lastCall.err) =>
        LET c == lastCall
            cs == c.calls
            f == c.fcid
            H == c.index.height
            n == c.curr[1].revisionNumber
            size == c.curr[1].fileSize
            p == c.prior
            w == StateWrites(cs)
            marker == n = MaxRevisionNumber /\ size = 0
            fresh == p \in {ContractStatePending, ContractStateUnknown}
        IN /\ cs[1] = CallContractState(f)
           /\ cs[2] = CallUpdateContract(f, H, n, size)
           /\ CountOp("UpdateContract", cs) = 1
           /\ Occurs(CallUpdateContractProofHeight(f, H), cs) <=> c.resolved
           /\ CountOp("UpdateContractProofHeight", cs) = (IF c.resolved THEN 1 ELSE 0)
           /\ c.resolved =>
                 /\ cs[Len(cs) - 1] = CallUpdateContractProofHeight(f, H)
                 /\ cs[Len(cs)].op = "UpdateContractState"
           /\ Len(w) = (IF fresh THEN 1 ELSE 0) + (IF marker THEN 1 ELSE 0)
                        + (IF c.resolved THEN 1 ELSE 0)
           /\ fresh => w[1] = ContractStateActive
           /\ marker => w[(IF fresh THEN 2 ELSE 1)] = ContractStateComplete
           /\ LastOr(w, p) =
                 (IF c.resolved /\ ~c.valid THEN ContractStateFailed
                  ELSE IF c.resolved \/ marker THEN ContractStateComplete
                  ELSE IF fresh THEN ContractStateActive
                  ELSE p)
           /\ c.after = LastOr(w, p)

\* all of steps 2, 3 and 4 write: a pending contract, the renewal marker
\* and a missed proof
C5_Witness ==
    /\ lastCall # NoCall
    /\ lastCall.prev = NoRev
    /\ ~lastCall.err
    /\ lastCall.fcid \in knownContracts
    /\ StateWrites(lastCall.calls) =
          <<ContractStateActive, ContractStateComplete, ContractStateFailed>>
    /\ lastCall.after = ContractStateFailed

(***************************************************************************)
(* C6. Revert path of updateContract (prev present) for a known contract   *)
(* with prior state p at height H, no call failing: if curr is absent,     *)
(* Pending is written and no UpdateContract is issued; if curr is present, *)
(* UpdateContract(H, prev.revisionNumber, prev.fileSize) is issued and     *)
(* Active is written with it exactly when p is Complete; if resolved,      *)
(* Active is written last, whether valid or not and whatever p is.         *)
(***************************************************************************)
C6_RevertPath ==
    (/\ lastCall # NoCall
     /\ lastCall.prev # NoRev
     /\ lastCall.fcid \in knownContracts
     /\ ~lastCall.err) =>
        LET c == lastCall
            cs == c.calls
            f == c.fcid
            H == c.index.height
            p == c.prior
            w == StateWrites(cs)
            complete == c.curr # NoRev /\ p = ContractStateComplete
        IN /\ cs[1] = CallContractState(f)
           /\ c.curr = NoRev =>
                 /\ cs[2] = CallUpdateContractState(f, ContractStatePending)
                 /\ CountOp("UpdateContract", cs) = 0
           /\ c.curr # NoRev =>
                 /\ cs[2] = CallUpdateContract(f, H, c.prev[1].revisionNumber,
                                               c.prev[1].fileSize)
                 /\ CountOp("UpdateContract", cs) = 1
                 /\ p = ContractStateComplete =>
                       cs[3] = CallUpdateContractState(f, ContractStateActive)
                 /\ (p # ContractStateComplete /\ ~c.resolved) => Len(cs) = 2
           /\ w = (IF c.curr = NoRev THEN <<ContractStatePending>> ELSE <<>>)
                  \o (IF complete THEN <<ContractStateActive>> ELSE <<>>)
                  \o (IF c.resolved THEN <<ContractStateActive>> ELSE <<>>)
           /\ c.resolved =>
                 /\ cs[Len(cs)] = CallUpdateContractState(f, ContractStateActive)
                 /\ c.after = ContractStateActive
           /\ CountOp("UpdateContractProofHeight", cs) = 0

\* the revert of a missed proof (resolved, not valid) in the block that
\* formed the contract: Pending, then Active last
C6_Witness ==
    /\ lastCall # NoCall
    /\ lastCall.prev # NoRev /\ lastCall.curr = NoRev
    /\ lastCall.fcid \in knownContracts
    /\ ~lastCall.err
    /\ lastCall.resolved /\ ~lastCall.valid
    /\ lastCall.prior = ContractStateFailed
    /\ StateWrites(lastCall.calls) = <<ContractStatePending, ContractStateActive>>

\* the file contract element of the batch of one update the walkers run on
TheUpdate == IF caus # <<>> THEN caus[1] ELSE crus[1]
TheElement == Elements(TheUpdate)[1]

(***************************************************************************)
(* C7. Reorg of a final revision, as the claim states it: a revert update  *)
(* at height H for a known contract in state Complete with                 *)
(* prev = (MaxRevisionNumber, 0) and curr = (4, 1024) makes the deriver    *)
(* issue UpdateContract(H, 4, 1024) and the state become Active.           *)
(***************************************************************************)
C7_Original ==
    (/\ lastCall # NoCall
     /\ lastCall.prev = Some(Rev(MaxRevisionNumber, 0))
     /\ lastCall.curr = Some(Rev(4, 1024))
     /\ lastCall.fcid \in knownContracts
     /\ lastCall.prior = ContractStateComplete
     /\ ~lastCall.err) =>
        /\ Occurs(CallUpdateContract(lastCall.fcid, lastCall.index.height, 4, 1024),
                  lastCall.calls)
        /\ lastCall.after = ContractStateActive

(***************************************************************************)
(* C7, amended. When the reverted block revised a known contract in state  *)
(* Complete from (4, 1024) to the final revision (MaxRevisionNumber, 0),   *)
(* the walker passes prev = (4, 1024), the element before the block, and   *)
(* curr = (MaxRevisionNumber, 0), the reverted revision, and the deriver   *)
(* issues UpdateContract(H, 4, 1024) and no other UpdateContract, H being  *)
(* the height of the update's State.Index, and the state becomes Active.   *)
(***************************************************************************)
C7_RevertFinalRevision ==
    (/\ lastCall # NoCall
     /\ crus # <<>>
     /\ TheElement.fce = Rev(4, 1024)
     /\ TheElement.rev = Some(Rev(MaxRevisionNumber, 0))
     /\ TheElement.id \in knownContracts
     /\ lastCall.prior = ContractStateComplete
     /\ ~lastCall.err) =>
        /\ lastCall.fcid = TheElement.id
        /\ lastCall.prev = Some(Rev(4, 1024))
        /\ lastCall.curr = Some(Rev(MaxRevisionNumber, 0))
        /\ Occurs(CallUpdateContract(TheElement.id, crus[1].index.height, 4, 1024),
                  lastCall.calls)
        /\ CountOp("UpdateContract", lastCall.calls) = 1
        /\ lastCall.after = ContractStateActive

\* the revert of the final revision of a v1 contract, not resolved, committed
C7_Witness ==
    /\ pc = "processed"
    /\ crus # <<>>
    /\ TheElement.v = 1 /\ ~TheElement.resolved
    /\ TheElement.fce = Rev(4, 1024)
    /\ TheElement.rev = Some(Rev(MaxRevisionNumber, 0))
    /\ TheElement.id \in knownContracts
    /\ txBegin.contracts[TheElement.id].state = ContractStateComplete
    /\ store.contracts[TheElement.id].state = ContractStateActive
    /\ store.contracts[TheElement.id].revisionNumber = 4
    /\ store.contracts[TheElement.id].size = 1024

(***************************************************************************)
(* C8. v2 resolution classification: for every v2 element the walkers pass *)
(* to the deriver, (resolved, valid) is (false, false) when there is no    *)
(* resolution, (true, true) for a Finalization, a Renewal and a            *)
(* StorageProof, and (true, file size of the element = 0) for an           *)
(* Expiration; so applying an Expiration of an element of file size 1024   *)
(* to a known contract in state Active ends in state Failed.               *)
(***************************************************************************)
C8_Classification ==
    (lastCall # NoCall /\ TheElement.v = 2) =>
        LET e == TheElement IN
        /\ e.res = "nil" => (~lastCall.resolved /\ ~lastCall.valid)
        /\ e.res \in {"Finalization", "Renewal", "StorageProof"} =>
              (lastCall.resolved /\ lastCall.valid)
        /\ e.res = "Expiration" =>
              (lastCall.resolved /\ (lastCall.valid <=> e.fce.fileSize = 0))
        /\ (/\ caus # <<>>
            /\ e.res = "Expiration" /\ e.fce.fileSize = 1024
            /\ e.id \in knownContracts
            /\ lastCall.prior = ContractStateActive
            /\ ~lastCall.err) =>
              /\ LastOr(StateWrites(lastCall.calls), lastCall.prior) = ContractStateFailed
              /\ lastCall.after = ContractStateFailed

\* a committed apply of an expiration with file size 1024 to an active contract
C8_Witness ==
    /\ pc = "processed"
    /\ caus # <<>>
    /\ Elements(caus[1]) # <<>>
    /\ TheElement.v = 2
    /\ TheElement.res = "Expiration" /\ TheElement.fce.fileSize = 1024
    /\ TheElement.id \in knownContracts
    /\ txBegin.contracts[TheElement.id].state = ContractStateActive
    /\ store.contracts[TheElement.id].state = ContractStateFailed

(***************************************************************************)
(* C9. On the apply path every file contract element of every apply        *)
(* update, whatever the block's timestamp, is passed to the deriver with   *)
(* prev = nil and curr projected from the revision if present, else from   *)
(* the element, so that for a known contract UpdateContract is issued with *)
(* that projection; an old timestamp suppresses the UpdateHost calls only. *)
(* Stated for the elements that name a known contract, where the call of   *)
(* the deriver shows in the transaction.                                   *)
(***************************************************************************)
C9_Original ==
    (/\ pc = "processed" /\ caus # <<>> /\ Elements(caus[1]) # <<>>
     /\ TheElement.id \in knownContracts) =>
        LET e == TheElement
            curr == IF e.rev # NoRev THEN e.rev[1] ELSE e.fce
        IN /\ lastCall # NoCall
           /\ lastCall.fcid = e.id
           /\ lastCall.prev = NoRev
           /\ lastCall.curr = Some(curr)
           /\ Occurs(CallUpdateContract(e.id, caus[1].index.height,
                                        curr.revisionNumber, curr.fileSize), txLog)

(***************************************************************************)
(* C10. Announcement freshness: in a pass of applyChainUpdates over a      *)
(* block in which no UpdateHost fails, UpdateHost is omitted for an        *)
(* announcement iff the block's timestamp precedes now - announcementMaxAge*)
(* or the net address is empty; and no UpdateHost is ever issued, and no   *)
(* host row ever written, from a block older than announcementMaxAge or    *)
(* with an empty net address.                                              *)
(***************************************************************************)
C10_Freshness ==
    /\ \A i \in 1..Len(txLog) :
          txLog[i].op = "UpdateHost" =>
            /\ txLog[i].netAddress # ""
            /\ lastWalk # NoWalk
            /\ ~(txLog[i].ts < lastWalk.clock - announcementMaxAge)
    /\ \A hk \in HostKeys :
          store.hosts[hk] # NoHost =>
            /\ store.hosts[hk][1].netAddress # ""
            /\ ~(store.hosts[hk][1].ts < now - announcementMaxAge)
    /\ (lastWalk # NoWalk /\ ~lastWalk.err) =>
          LET u == lastWalk.update
              old == u.ts < lastWalk.clock - announcementMaxAge
              issued(a) == Occurs(CallUpdateHost(a.hk, a.netAddress, u.index, u.ts),
                                  lastWalk.calls)
              kept == {j \in 1..Len(u.anns) : ~old /\ u.anns[j].netAddress # ""}
          IN /\ \A j \in 1..Len(u.anns) :
                   ~issued(u.anns[j]) <=> (old \/ u.anns[j].netAddress = "")
             /\ CountOp("UpdateHost", lastWalk.calls) = Cardinality(kept)
             /\ Len(lastWalk.calls) = Cardinality(kept)

\* a block exactly announcementMaxAge old with one empty and one non-empty
\* announcement: one UpdateHost, and its row is committed
C10_Witness ==
    /\ pc = "processed"
    /\ lastWalk # NoWalk /\ ~lastWalk.err
    /\ lastWalk.clock - lastWalk.update.ts = announcementMaxAge
    /\ Len(lastWalk.update.anns) = 2
    /\ lastWalk.update.anns[1].netAddress = ""
    /\ Len(lastWalk.calls) = 1
    /\ store.hosts[2] # NoHost
    /\ store.hosts[1] = NoHost

(***************************************************************************)
(* C11. Bounded retry: for every fetched batch, transactions are begun     *)
(* until the first one commits or until len(retryTxIntervals)+1 of them    *)
(* have failed.  When attempt k is the first to succeed, exactly k         *)
(* transactions were begun for the batch and exactly one Commit            *)
(* succeeded; after a failed attempt that is not the last, another one is  *)
(* made; sync returns the error only after exactly len(retryTxIntervals)+1 *)
(* begun transactions, none committed (one attempt when the list is        *)
(* empty), and fetches nothing after that.                                 *)
(***************************************************************************)
C11_BoundedRetry ==
    /\ [](/\ begun <= retryTxIntervals + 1
          /\ commits <= 1
          /\ (pc = "begin" => begun = attempt - 1 /\ commits = 0)
          /\ (pc \in {"tx", "failed"} => begun = attempt /\ commits = 0)
          /\ (pc = "processed" => begun = attempt /\ commits = 1))
    /\ [][/\ ((pc = "failed" /\ pc' = "sync_err")
                => (begun = retryTxIntervals + 1 /\ commits = 0))
           /\ ((pc = "failed" /\ begun < retryTxIntervals + 1) => pc' = "begin")
           /\ ((pc = "failed" /\ begun = retryTxIntervals + 1) => pc' = "sync_err")
           /\ (pc = "sync_err" => (pc' = "sync_err" /\ begun' = begun /\ crus' = crus
                                   /\ caus' = caus))]_vars

\* a batch whose first attempt failed has just been committed by the second
C11_Witness ==
    /\ pc = "processed"
    /\ attempt = 2
    /\ begun = 2
    /\ commits = 1
    /\ crus # <<>>

(***************************************************************************)
(* C12. Composition: committing a prefix of the updates U as one batch and *)
(* the rest of U as a second batch leaves the same committed contract      *)
(* rows (state, revision height, revision number, size, proof height) and  *)
(* the same tip as committing U as a single batch from the same persisted  *)
(* state with the same known contracts.  Stated for the splits in which    *)
(* both parts hold an update.                                              *)
(***************************************************************************)
C12_Original ==
    compose.phase = "done"
        => /\ store.contracts = compose.whole.contracts
           /\ store.tip = compose.whole.tip

(***************************************************************************)
(* C13. Level-triggered wake: every post the reorg callback makes to       *)
(* syncSig while closedChan is open is followed, as long as closedChan     *)
(* stays open, by a pass of the worker that begins after the post with     *)
(* the read of the stored tip (s.cs.ChainIndex()) and calls sync with it;  *)
(* when that read fails the pass ends there.  One pass may serve several   *)
(* posts: the buffer never holds more than one.                            *)
(***************************************************************************)
C13_LevelTriggered ==
    /\ (awaited = "posted") ~> (awaited = "none" \/ closedChan)
    /\ [](syncSig \in {0, 1})
    /\ [][(worker = "woken" /\ worker' = "sync")
            => (cursor' = store.tip /\ pc' = "sync_loop")]_vars

\* two posts were made while the worker was inside sync, one value is
\* buffered, and the worker has not read the stored tip since
C13_Witness ==
    /\ awaited = "posted"
    /\ worker = "sync"
    /\ syncSig = 1
    /\ cmTip.height >= 2
    /\ store.tip = Genesis
    /\ ~closedChan

(***************************************************************************)
(* C14. Once Close has returned the worker does nothing more: it starts no *)
(* sync pass, issues no call on a transaction, and the persisted state     *)
(* does not change.                                                        *)
(***************************************************************************)
C14_Original ==
    [][closedChan => /\ NewCalls = <<>>
                     /\ store' = store
                     /\ ~(worker # "sync" /\ worker' = "sync")]_vars

(***************************************************************************)
(* C15. Shutdown during a sync: when closedChan is closed while the worker *)
(* is processing a batch inside sync, that sync makes no further call of   *)
(* UpdatesSince: the worker finishes the batch and stops.                  *)
(***************************************************************************)
C15_Original ==
    [][closedAt = "batch" => ~(pc = "fetch" /\ pc' # "fetch")]_vars

(***************************************************************************)
(* C16. A failing pass does not stop the worker: when sync returns an      *)
(* error (UpdatesSince failed, or the last attempt on a batch failed) or   *)
(* the stored tip cannot be read, the worker goes back to its select; it   *)
(* exits only from the select and only when closedChan is closed; a value  *)
(* in syncSig lets it wake again, and a woken worker calls sync with the   *)
(* tip it reads from the store.                                            *)
(***************************************************************************)
C16_WorkerSurvives ==
    /\ [][/\ ((worker = "sync" /\ pc = "sync_err" /\ worker' # worker)
                => worker' = "select")
           /\ ((worker = "woken" /\ worker' # worker)
                => \/ worker' = "select" /\ lastPass' = "noindex"
                   \/ worker' = "sync" /\ cursor' = store.tip /\ pc' = "sync_loop")
           /\ ((worker # "exited" /\ worker' = "exited")
                => (worker = "select" /\ closedChan))]_vars
    /\ []((worker = "select" /\ syncSig = 1) => ENABLED WorkerWake)

\* after a pass in which sync returned an error, the worker is in a new sync
\* that starts from the stored tip
C16_Witness ==
    /\ worker = "sync"
    /\ lastPass = "err"
    /\ pc = "sync_loop"
    /\ cursor = store.tip
    /\ attempt = 0
    /\ ~closedChan

(***************************************************************************)
(* C17. No tip change is missed after start-up: when Run has returned      *)
(* without error, no call of the store or of UpdatesSince ever fails and   *)
(* the subscriber is not closed, the persisted tip is in the end equal to  *)
(* the tip of the chain manager and stays so (the tip changes finitely     *)
(* often).                                                                 *)
(***************************************************************************)
C17_Original ==
    ([](pc # "failed" /\ pc # "sync_err" /\ runpc # "error" /\ lastPass # "noindex"
        /\ ~closedChan))
        => <>[](runpc = "returned" /\ store.tip = cmTip)

(***************************************************************************)
(* Helpers: the places of calls in the log of the transaction.             *)
(***************************************************************************)
Places(ops) == {i \in 1..Len(txLog) : txLog[i].op \in ops}
AllBefore(A, B) == \A i \in A, j \in B : i < j
WalkerOps == ContractOps \cup {"UpdateHost"}
WriteOps == {"UpdateContract", "UpdateContractState", "UpdateContractProofHeight",
             "UpdateHost", "UpdateChainIndex", "UpdateFailedContracts",
             "WalletRevert", "WalletApply"}
Committed == txLog # <<>> /\ txLog[Len(txLog)].op = "Commit"
PhaseRank(ph) ==
    CASE ph = "revert" -> 1
      [] ph = "apply" -> 2
      [] ph = "walletApply" -> 3
      [] ph = "chainIndex" -> 4
      [] ph = "failedContracts" -> 5
      [] ph = "commit" -> 6
      [] OTHER -> 0
\* the indices of the wallet reverts in the log, in order
WalletReverts ==
    LET ws == SelectSeq(txLog, LAMBDA c : c.op = "WalletRevert")
    IN [i \in 1..Len(ws) |-> ws[i].index]

(***************************************************************************)
(* C18. Order inside one processUpdates transaction: the reverts come      *)
(* first, in the order of crus, and for each of them the contract walker   *)
(* goes over its elements before wallet.RevertChainUpdate is called for    *)
(* it; then the apply walker goes over every update of caus in order,      *)
(* hosts before contract elements; only then wallet.ApplyChainUpdates is   *)
(* called, once; then UpdateChainIndex, UpdateFailedContracts and Commit,  *)
(* with Commit last.                                                       *)
(***************************************************************************)
C18_OrderOfOperations ==
    /\ [][(pc = "begin" /\ pc' = "tx")
            => pos' = (IF crus # <<>> THEN Pos("revert", 1, 1)
                       ELSE IF caus # <<>> THEN Pos("apply", 1, 0)
                       ELSE Pos("walletApply", 0, 0))]_vars
    /\ [][(pc = "tx" /\ pc' = "tx") =>
            /\ PhaseRank(pos.phase) <= PhaseRank(pos'.phase)
            /\ (pos.phase = "revert" /\ pos.e <= Len(Elements(crus[pos.u])))
                   => (/\ pos' = Pos("revert", pos.u, pos.e + 1)
                       /\ \A i \in 1..Len(NewCalls) : NewCalls[i].op \in ContractOps)
            /\ (pos.phase = "revert" /\ pos.e > Len(Elements(crus[pos.u])))
                   => (/\ NewCalls = <<CallWalletRevert(crus[pos.u].index)>>
                       /\ IF pos.u < Len(crus) THEN pos' = Pos("revert", pos.u + 1, 1)
                          ELSE pos'.phase \in {"apply", "walletApply"})
            /\ (pos.phase = "apply")
                   => (/\ \A i \in 1..Len(NewCalls) : NewCalls[i].op \in WalkerOps
                       /\ \/ pos'.phase = "apply" /\ pos'.u = pos.u /\ pos'.e > pos.e
                          \/ pos'.phase = "apply" /\ pos'.u = pos.u + 1 /\ pos'.e = 0
                          \/ pos'.phase = "walletApply" /\ pos.u = Len(caus))
            /\ (pos'.phase = "apply" /\ pos.phase # "apply")
                   => (pos'.u = 1 /\ pos'.e = 0)
            /\ (pos.phase = "walletApply")
                   => (pos'.phase = "chainIndex" /\ Len(NewCalls) = 1
                       /\ NewCalls[1].op = "WalletApply")
            /\ (pos.phase = "chainIndex")
                   => (pos'.phase = "failedContracts"
                       /\ NewCalls = <<CallUpdateChainIndex(index)>>)
            /\ (pos.phase = "failedContracts") => pos'.phase = "commit"]_vars
    /\ [](pc = "processed" =>
            /\ WalletReverts = [i \in 1..Len(crus) |-> crus[i].index]
            /\ Cardinality(Places({"WalletApply"})) = 1
            /\ AllBefore(Places({"WalletRevert"}), Places({"UpdateHost", "WalletApply"}))
            /\ AllBefore(Places(WalkerOps), Places({"WalletApply"}))
            /\ AllBefore(Places(WalkerOps \cup {"WalletRevert", "WalletApply"}),
                         Places({"UpdateChainIndex", "UpdateFailedContracts", "Commit"}))
            /\ Places({"Commit"}) = {Len(txLog)})

\* a committed batch of one revert and one apply, with contract calls of the
\* revert walker, a host written by the apply walker and both wallet helpers
C18_Witness ==
    /\ pc = "processed"
    /\ Len(crus) = 1 /\ Len(caus) = 1
    /\ txLog[1].op = "ContractState"
    /\ Places({"WalletRevert"}) # {}
    /\ Places({"UpdateHost"}) # {}
    /\ Places({"WalletApply"}) # {}

(***************************************************************************)
(* C19. In a transaction that reaches Commit, UpdateChainIndex is the      *)
(* write issued right before Commit.                                       *)
(***************************************************************************)
C19_Original ==
    Committed => (Len(txLog) >= 2 /\ txLog[Len(txLog) - 1].op = "UpdateChainIndex")

(***************************************************************************)
(* C19, as the code has it: in a transaction that reaches Commit the tip   *)
(* is advanced once, by the last write but one: the only call between      *)
(* UpdateChainIndex and Commit is the one call of UpdateFailedContracts.   *)
(***************************************************************************)
C19_TipAdvanceThenSweep ==
    Committed =>
        /\ Len(txLog) >= 3
        /\ Places({"UpdateChainIndex"}) = {Len(txLog) - 2}
        /\ txLog[Len(txLog) - 1].op = "UpdateFailedContracts"
        /\ \A i \in Places(WriteOps \ {"UpdateChainIndex", "UpdateFailedContracts"}) :
              i < Len(txLog) - 2

\* a committed transaction with contract and wallet writes before the tip
C19_Witness ==
    /\ pc = "processed"
    /\ Committed
    /\ Places({"UpdateContract"}) # {}
    /\ txLog[Len(txLog) - 2] = CallUpdateChainIndex(cmTip)
    /\ store.tip = cmTip

(***************************************************************************)
(* C20. In every transaction that commits, UpdateFailedContracts is called *)
(* exactly once, after every other write of the transaction (contract,     *)
(* host, wallet and chain index), with the height of the index that was    *)
(* written as the tip and that the commit makes the persisted tip.         *)
(***************************************************************************)
C20_SweepOnceLast ==
    pc = "processed" =>
        /\ Cardinality(Places({"UpdateFailedContracts"})) = 1
        /\ AllBefore(Places(WriteOps \ {"UpdateFailedContracts"}),
                     Places({"UpdateFailedContracts"}))
        /\ \A k \in Places({"UpdateFailedContracts"}) :
              /\ txLog[k].blockHeight = store.tip.height
              /\ txLog[k].blockHeight = index.height
              /\ k >= 2
              /\ txLog[k - 1] = CallUpdateChainIndex(index)

\* a committed batch of a revert and an apply ending at height 1: the sweep
\* ran at height 1, after the contract, wallet and tip writes
C20_Witness ==
    /\ pc = "processed"
    /\ crus # <<>> /\ caus # <<>>
    /\ Occurs(CallUpdateFailedContracts(1), txLog)
    /\ Places({"UpdateContractState"}) # {}
    /\ Places({"WalletRevert"}) # {}
    /\ Places({"WalletApply"}) # {}
    /\ store.tip.height = 1

(***************************************************************************)
(* C21. A failed attempt of processUpdates does not change the cursor of   *)
(* sync: the step in which processUpdates returns an error leaves the      *)
(* cursor at the value it had before the attempt, and the cursor changes   *)
(* only to the index returned by a successful attempt.                     *)
(***************************************************************************)
C21_Original ==
    [][/\ (pc' = "failed" => cursor' = cursor)
       /\ (cursor' # cursor => (pc' = "processed" /\ cursor' = index'))]_vars

(***************************************************************************)
(* Subscriber.sync with a chain manager that may answer UpdatesSince with  *)
(* no update at all: the interface returns two slices and an error, and    *)
(* sync passes whatever it gets to processUpdates.                         *)
(***************************************************************************)
\* crus, caus, err := s.cm.UpdatesSince(index, updatesBatchSize), err == nil
\* and both slices empty
FetchEmpty ==
    /\ pc = "fetch"
    /\ crus' = <<>>
    /\ caus' = <<>>
    /\ attempt' = 1
    /\ begun' = 0 /\ commits' = 0
    /\ pc' = "begin"
    /\ UNCHANGED <<knownContracts, now, cmTip, store, cursor, pos, index, tx, txLog,
                   txBegin, lastCall, lastWalk>>
    /\ UNCHANGED lifeVars
    /\ UNCHANGED compVars

AnyBatchNext ==
    \/ RetryNext
    \/ FetchEmpty

SpecAnyBatch == RetryInit /\ [][AnyBatchNext]_vars

\* State.Index of the updates of the fetched batch
BatchIndices ==
    {crus[i].index : i \in 1..Len(crus)} \cup {caus[i].index : i \in 1..Len(caus)}

(***************************************************************************)
(* C22. The persisted tip is only ever set to State.Index of an update the *)
(* chain manager supplied: for every batch UpdatesSince returns while the  *)
(* cursor differs from cm.Tip(), the batch without reverts and applies     *)
(* included, the tip committed by processUpdates and the cursor sync takes *)
(* from it are the index of an update of that batch.                       *)
(***************************************************************************)
C22_Original ==
    pc = "processed" => (store.tip \in BatchIndices /\ cursor \in BatchIndices)

(***************************************************************************)
(* C23. Within one processUpdates transaction membership in the known      *)
(* contracts is decided the same way for all updates of the batch: a       *)
(* contract ID that was skipped as unknown for one element of the batch is *)
(* not processed for the next element of the batch naming it, whatever     *)
(* AddContractID does while the batch is being processed.                  *)
(***************************************************************************)
C23_Original ==
    [][(/\ pc = "tx"
        /\ lastCall # NoCall
        /\ lastCall' # NoCall
        /\ lastCall'.fcid = lastCall.fcid
        /\ ~lastCall.known)
       => lastCall'.calls = <<>>]_vars

(***************************************************************************)
(* C24. The wake signal holds at most one pending post in every reachable  *)
(* state, and triggerSync never blocks its caller: the callback of the     *)
(* chain manager can run whether or not a post is pending, a post made     *)
(* while none is pending is buffered, and a post made while one is pending *)
(* is dropped and leaves the signal as it was.                             *)
(***************************************************************************)
C24_AtMostOnePost ==
    /\ [](syncSig \in 0..syncSigCap)
    /\ []((onReorg /\ pc \in {"idle", "sync_loop"} /\ cmTip.height < MaxHeight)
            => ENABLED (\E t \in ChainIndices : TipChange(t)))
    /\ [][(onReorg /\ cmTip' # cmTip)
            => /\ syncSig' = (IF syncSig = 0 THEN 1 ELSE syncSig)
               /\ lastPost' = (IF syncSig = 0 THEN "sent" ELSE "dropped")]_vars

\* the callback has posted while the worker had not yet taken the post before
C24_Witness ==
    /\ lastPost = "dropped"
    /\ syncSig = 1
    /\ onReorg

(***************************************************************************)
(* C25. sync terminates at the tip: with a tip that does not change, when  *)
(* UpdatesSince never fails and every batch is committed within            *)
(* len(retryTxIntervals)+1 attempts, that is, when sync never returns an   *)
(* error, sync eventually returns nil with its cursor and the persisted    *)
(* tip equal to cm.Tip().                                                  *)
(***************************************************************************)
C25_SyncTerminates ==
    [](pc # "sync_err") => <>(pc = "sync_ok" /\ cursor = cmTip /\ store.tip = cmTip)

\* sync has returned nil at a tip on the other fork, and the last of its
\* batches was committed by the second attempt
C25_Witness ==
    /\ pc = "sync_ok"
    /\ cursor = cmTip
    /\ store.tip = cmTip
    /\ crus # <<>>
    /\ caus # <<>>
    /\ begun = 2
    /\ commits = 1

(***************************************************************************)
(* The webhook manager (src/webhooks/webhooks.go): Register, Delete,       *)
(* BroadcastAction, the dequeue goroutines of the queues, and Close.       *)
(* Manager.mu is held by BroadcastAction from its first line to its        *)
(* return; the mutex of a queue is held for one turn of the loop of        *)
(* BroadcastAction and for the head of one turn of the loop of dequeue.    *)
(***************************************************************************)
\* the variables of the subscriber and of its histories
subVars == <<knownContracts, now, cmTip, store, pc, cursor, crus, caus, attempt,
             pos, index, tx, txLog, txBegin, lastCall, lastWalk>>
notHookVars == <<subVars, lifeVars, batchHist, compose, lastPost>>

NoEvent == Event("", "", 0)
\* a goroutine in dequeue: at the head of its loop, or inside sendEvent
Dequeuer(at, next) == [pc |-> at, next |-> next]
RemoveAt(seq, i) == SubSeq(seq, 1, i - 1) \o SubSeq(seq, i + 1, Len(seq))

\* Webhook.Matches
Matches(w, action) ==
    IF w.module # action.module THEN FALSE
    ELSE w.event = "" \/ w.event = action.event

\* Manager.Register after the ping was answered: the webhook is stored under
\* its URL, module and event (a failed ping returns the error and changes
\* nothing)
Register(wh) ==
    /\ ~broadcast.running
    /\ webhooks' = webhooks \cup {wh}
    /\ UNCHANGED <<queues, dequeuers, broadcast, ctxDone, closepc, emitted, appended,
                   handed>>
    /\ UNCHANGED notHookVars

\* Manager.Delete
Delete(wh) ==
    /\ ~broadcast.running
    /\ webhooks' = webhooks \ {wh}
    /\ UNCHANGED <<queues, dequeuers, broadcast, ctxDone, closepc, emitted, appended,
                   handed>>
    /\ UNCHANGED notHookVars

\* Manager.BroadcastAction: w.mu.Lock(); the loop ranges over the webhooks
\* registered now, in any order
BroadcastAction(kind) ==
    /\ ~broadcast.running
    /\ emitted < MaxEvents
    /\ emitted' = emitted + 1
    /\ broadcast' = [running |-> TRUE,
                     event |-> Event(kind[1], kind[2], emitted + 1),
                     todo |-> webhooks]
    /\ UNCHANGED <<webhooks, queues, dequeuers, ctxDone, closepc, appended, handed>>
    /\ UNCHANGED notHookVars

\* mutant: a goroutine is started for every event that is appended
BroadcastActionHookAlwaysLaunches(hook) ==
    /\ broadcast.running
    /\ hook \in broadcast.todo
    /\ broadcast' = [broadcast EXCEPT !.todo = @ \ {hook}]
    /\ IF ~Matches(hook, broadcast.event)
       THEN UNCHANGED <<queues, dequeuers, appended>>
       ELSE LET u == hook.url
                queue == IF queues[u].exists THEN queues[u] ELSE NewQueue
            IN /\ queues' = [queues EXCEPT ![u] =
                                [exists |-> TRUE, isDequeueing |-> TRUE,
                                 events |-> Append(queue.events, broadcast.event)]]
               /\ dequeuers' = [dequeuers EXCEPT ![u] = Append(@, Dequeuer("head", NoEvent))]
               /\ appended' = [appended EXCEPT ![u] = Append(@, broadcast.event)]
    /\ UNCHANGED <<webhooks, ctxDone, closepc, emitted, handed>>
    /\ UNCHANGED notHookVars

\* one turn of the loop of BroadcastAction: a webhook that does not match is
\* passed over; otherwise the queue of its URL is found or created, the event
\* is appended and, unless the queue is being dequeued, the flag is set and
\* a goroutine is started, all under the mutex of the queue
BroadcastActionHook(hook) ==
    /\ broadcast.running
    /\ hook \in broadcast.todo
    /\ broadcast' = [broadcast EXCEPT !.todo = @ \ {hook}]
    /\ IF ~Matches(hook, broadcast.event)
       THEN UNCHANGED <<queues, dequeuers, appended>>
       ELSE LET u == hook.url
                queue == IF queues[u].exists THEN queues[u] ELSE NewQueue
            IN /\ queues' = [queues EXCEPT ![u] =
                                [exists |-> TRUE, isDequeueing |-> TRUE,
                                 events |-> Append(queue.events, broadcast.event)]]
               /\ dequeuers' = IF ~queue.isDequeueing
                               THEN [dequeuers EXCEPT ![u] =
                                        Append(@, Dequeuer("head", NoEvent))]
                               ELSE dequeuers
               /\ appended' = [appended EXCEPT ![u] = Append(@, broadcast.event)]
    /\ UNCHANGED <<webhooks, ctxDone, closepc, emitted, handed>>
    /\ UNCHANGED notHookVars

\* BroadcastAction returns nil and unlocks w.mu
BroadcastActionReturns ==
    /\ broadcast.running
    /\ broadcast.todo = {}
    /\ broadcast' = NoBroadcast
    /\ UNCHANGED <<webhooks, queues, dequeuers, ctxDone, closepc, emitted, appended,
                   handed>>
    /\ UNCHANGED notHookVars

\* eventQueue.dequeue, the head of one turn of its loop under the mutex of the
\* queue: with no event left the flag is cleared and the goroutine returns;
\* otherwise the first event is taken off the queue and handed to sendEvent
dequeueNext(u, i) ==
    /\ i \in 1..Len(dequeuers[u])
    /\ dequeuers[u][i].pc = "head"
    /\ IF Len(queues[u].events) = 0
       THEN /\ queues' = [queues EXCEPT ![u].isDequeueing = FALSE]
            /\ dequeuers' = [dequeuers EXCEPT ![u] = RemoveAt(@, i)]
            /\ handed' = handed
       ELSE LET next == queues[u].events[1]
            IN /\ queues' = [queues EXCEPT ![u].events = Tail(@)]
               /\ dequeuers' = [dequeuers EXCEPT ![u][i] = Dequeuer("send", next)]
               /\ handed' = [handed EXCEPT ![u] = Append(@, next)]
    /\ UNCHANGED <<webhooks, broadcast, ctxDone, closepc, emitted, appended>>
    /\ UNCHANGED notHookVars

\* sendEvent returns nil, which it cannot once the context is cancelled: the
\* loop of dequeue goes on
dequeueSent(u, i) ==
    /\ i \in 1..Len(dequeuers[u])
    /\ dequeuers[u][i].pc = "send"
    /\ ~ctxDone
    /\ dequeuers' = [dequeuers EXCEPT ![u][i] = Dequeuer("head", NoEvent)]
    /\ UNCHANGED <<webhooks, queues, broadcast, ctxDone, closepc, emitted, appended,
                   handed>>
    /\ UNCHANGED notHookVars

\* sendEvent returns an error: it is logged and dequeue returns
dequeueSendFails(u, i) ==
    /\ i \in 1..Len(dequeuers[u])
    /\ dequeuers[u][i].pc = "send"
    /\ dequeuers' = [dequeuers EXCEPT ![u] = RemoveAt(@, i)]
    /\ UNCHANGED <<webhooks, queues, broadcast, ctxDone, closepc, emitted, appended,
                   handed>>
    /\ UNCHANGED notHookVars

\* Manager.Close: w.ctxCancel(), then w.wg.Wait()
ManagerClose ==
    /\ closepc = "open"
    /\ ctxDone' = TRUE
    /\ closepc' = "wait"
    /\ UNCHANGED <<webhooks, queues, dequeuers, broadcast, emitted, appended, handed>>
    /\ UNCHANGED notHookVars

\* w.wg.Wait() returns when no goroutine started by BroadcastAction is left
ManagerCloseReturns ==
    /\ closepc = "wait"
    /\ \A u \in URLs : dequeuers[u] = <<>>
    /\ closepc' = "closed"
    /\ UNCHANGED <<webhooks, queues, dequeuers, broadcast, ctxDone, emitted, appended,
                   handed>>
    /\ UNCHANGED notHookVars

\* the manager as NewManager returns it, beside a subscriber that is not run
HooksInit == RunInit

HooksNext ==
    \/ \E wh \in Webhooks : Register(wh)
    \/ \E wh \in Webhooks : Delete(wh)
    \/ \E kind \in EventKinds : BroadcastAction(kind)
    \/ \E hook \in Webhooks : BroadcastActionHook(hook)
    \/ BroadcastActionReturns
    \/ \E u \in URLs, i \in 1..(2 * MaxEvents) : dequeueNext(u, i)
    \/ \E u \in URLs, i \in 1..(2 * MaxEvents) : dequeueSent(u, i)
    \/ \E u \in URLs, i \in 1..(2 * MaxEvents) : dequeueSendFails(u, i)
    \/ ManagerClose
    \/ ManagerCloseReturns

SpecHooks == HooksInit /\ [][HooksNext]_vars

\* s is the beginning of t
IsPrefix(s, t) == Len(s) <= Len(t) /\ s = SubSeq(t, 1, Len(s))

(***************************************************************************)
(* C26. The queue of every webhook URL is drained by a single consumer:    *)
(* under every interleaving of BroadcastAction and the steps of dequeue at *)
(* most one dequeue goroutine of a URL runs at a time, and the events of   *)
(* the URL are handed to sendEvent one at a time, each once, in the order  *)
(* in which BroadcastAction appended them.                                 *)
(***************************************************************************)
C26_SingleConsumer ==
    \A u \in URLs :
        /\ Len(dequeuers[u]) <= 1
        /\ IsPrefix(handed[u], appended[u])
        /\ appended[u] = handed[u] \o queues[u].events

\* while the goroutine of a URL is inside sendEvent with the second event of
\* the URL, BroadcastAction has appended a third one behind it
C26_Witness ==
    \E u \in URLs :
        /\ Len(dequeuers[u]) = 1
        /\ dequeuers[u][1].pc = "send"
        /\ Len(handed[u]) = 2
        /\ dequeuers[u][1].next = appended[u][2]
        /\ Len(queues[u].events) = 1
        /\ Len(appended[u]) = 3
        /\ appended[u][1] # appended[u][2]

(***************************************************************************)
(* C27. Every event BroadcastAction appends to the queue of a URL while    *)
(* the manager is not closed is eventually handed to sendEvent, also after *)
(* an earlier send to the same URL has failed; equivalently, the flag      *)
(* isDequeueing of a queue is true only while a dequeue goroutine of that  *)
(* queue is running.                                                       *)
(***************************************************************************)
C27_Original ==
    \A u \in URLs : queues[u].isDequeueing => Len(dequeuers[u]) > 0

(***************************************************************************)
(* C28. The known-contract set only grows: after construction every step   *)
(* keeps every ID that is in the set; a step that changes the set adds     *)
(* exactly one ID and is a call of AddContractID, which touches nothing    *)
(* else; and the steps of the sync worker (sync, processUpdates, the       *)
(* walkers and the deriver) leave the set as it is.                        *)
(***************************************************************************)
C28_OnlyGrows ==
    [][/\ knownContracts \subseteq knownContracts'
       /\ (knownContracts' # knownContracts
             => /\ Cardinality(knownContracts' \ knownContracts) = 1
                /\ UNCHANGED <<now, cmTip, store, pc, cursor, crus, caus, attempt, pos,
                               index, tx, txLog, txBegin, lastCall, lastWalk>>)]_vars

\* inside a transaction whose last call of updateContract found its contract
\* unknown, AddContractID has added that contract beside the other one
C28_Witness ==
    /\ pc = "tx"
    /\ lastCall # NoCall
    /\ ~lastCall.known
    /\ lastCall.fcid \in knownContracts
    /\ knownContracts = FCIDs
    /\ txLog # <<>>

====
